---- MODULE Spec2Model ----
(***************************************************************************)
(* Model of the shopsmarsales back office (backend src/index.ts): the      *)
(* bills-to-pay handlers, the order ingestion handlers and the stock       *)
(* ledger, as state machines over the rows of the persistent store.        *)
(*                                                                         *)
(* Tables are sets of rows with an auto-increment id, as in the database.  *)
(* A nullable column holds None (<<>>) or Some(v) (<<v>>).  Money is an    *)
(* integer (cents in the order tables); order dates are day numbers.       *)
(***************************************************************************)
EXTENDS Integers, Sequences, FiniteSets, TLC

VARIABLES
    bills,          \* Bill rows: [id, totalAmount, status]
    payments,       \* BillPayment rows: [id, billId, amount, dueDate, paidAt]
    nextBillId,     \* auto-increment of Bill.id
    nextPaymentId,  \* auto-increment of BillPayment.id
    billReq,        \* the last bills request and its response
    db,             \* Order, OrderItem and Product tables with their auto-increments
    ingestReq,      \* the last ingestion or purge request and its response
    steps,          \* requests served so far
    faults,         \* store failures that may still be injected
    catReq,         \* the last product request and its response
    race,           \* ingestion requests in flight and the order of their commits
    parse,          \* a date cell and the result of parsing it
    inv,            \* InventoryConfig, ProductStock, ProductGroup(Item/Stock) tables
    stockReq,       \* the last inventory request and its response
    fin,            \* AdSpend and PaymentTypeFee tables
    reportReq       \* the last financial request and its response

billVars == <<bills, payments, nextBillId, nextPaymentId, billReq>>
storeVars == <<db, ingestReq, steps, faults, catReq, race, parse>>

stockVars == <<inv, stockReq>>

reportVars == <<fin, reportReq>>

vars == <<billVars, storeVars, stockVars, reportVars>>

(***************************************************************************)
(* Generic helpers                                                         *)
(***************************************************************************)
None == <<>>
Some(v) == <<v>>
IsSome(o) == o # <<>>
Val(o) == o[1]

Max(a, b) == IF a >= b THEN a ELSE b

(***************************************************************************)
(* Bounds of the bills model                                               *)
(***************************************************************************)
MaxBills == 1        \* bills that can be created
MaxPayments == 2     \* payment rows that can be created
MaxAmount == 2       \* largest amount a request carries
MaxSteps == 3        \* ingestion and purge requests in one run
MaxFaults == 1       \* requests of a run in which a database call throws
MaxGroups == 1       \* product groups that can be created
MaxQty == 4          \* largest opening quantity a request carries

\* ids a request may address: those of the stored rows and one that is not stored
BillIds == { b.id : b \in bills } \cup {nextBillId}
PaymentIds == { p.id : p \in payments } \cup {nextPaymentId}
\* amounts as parseBrNumber returns them for the request body: any finite number
Amounts == (0 - 1)..MaxAmount

(***************************************************************************)
(* Plain dates of request bodies: "" (not given) or a yyyy-mm-dd text.     *)
(***************************************************************************)
DateStrs == { [kind |-> "empty", y |-> 0, m |-> 0, d |-> 0],
              [kind |-> "ymd",   y |-> 2026, m |-> 1, d |-> 5] }

\* parseDateOnlyAsNoonUTC: null for an empty string, Date.UTC(y, m-1, d, 12) for
\* yyyy-mm-dd, and new Date(s) (NaN -> null for a text that is no date) otherwise.
parseDateOnlyAsNoonUTC(s) ==
    IF s.kind = "empty" THEN None
    ELSE IF s.kind = "ymd" THEN Some([y |-> s.y, m |-> s.m, d |-> s.d, utcHour |-> 12])
    ELSE None

(***************************************************************************)
(* Bills                                                                   *)
(***************************************************************************)
BillById(bs, id) == { b \in bs : b.id = id }

PaymentsOf(ps, billId) == { p \in ps : p.billId = billId }

\* a sum that counts every payment, paid or not
PaidPartAll(p) == p.amount

PaidPart(p) == IF IsSome(p.paidAt) THEN p.amount ELSE 0

RECURSIVE SumPaid(_)
SumPaid(S) ==
    IF S = {} THEN 0
    ELSE LET p == CHOOSE q \in S : TRUE
         IN  PaidPart(p) + SumPaid(S \ {p})

\* const totalPaid = bill.payments.reduce((s, p) => s + (p.paidAt != null ? p.amount || 0 : 0), 0)
TotalPaid(ps, billId) == SumPaid(PaymentsOf(ps, billId))

StatusFor(totalPaid, totalAmount) ==
    IF totalPaid >= totalAmount THEN "paid"
    ELSE IF totalPaid > 0 THEN "partial"
    ELSE "pending"

\* updateBillStatus(billId): the Bill rows after it ran against payments ps
updateBillStatus(bs, ps, billId) ==
    { IF b.id = billId
        THEN [b EXCEPT !.status = StatusFor(TotalPaid(ps, billId), b.totalAmount)]
        ELSE b : b \in bs }

StatusOpt(bs, id) ==
    IF BillById(bs, id) = {} THEN None
    ELSE Some((CHOOSE b \in BillById(bs, id) : TRUE).status)

BillResp(op, id, code) ==
    [op |-> op, billId |-> id, code |-> code, before |-> StatusOpt(bills, id)]

\* POST /api/bills
CreateBill(totalAmount) ==
    /\ nextBillId <= MaxBills
    /\ IF totalAmount <= 0
         THEN /\ billReq' = BillResp("createBill", 0, 400)
              /\ UNCHANGED <<bills, payments, nextBillId, nextPaymentId>>
         ELSE /\ bills' = bills \cup
                    {[id |-> nextBillId, totalAmount |-> totalAmount, status |-> "pending"]}
              /\ nextBillId' = nextBillId + 1
              /\ billReq' = BillResp("createBill", nextBillId, 200)
              /\ UNCHANGED <<payments, nextPaymentId>>

\* PATCH /api/bills/:id  (totalAmount given or left out)
EditBill(id, totalOpt) ==
    IF BillById(bills, id) = {}
      THEN /\ billReq' = BillResp("editBill", id, 404)      \* P2025
           /\ UNCHANGED <<bills, payments, nextBillId, nextPaymentId>>
      ELSE LET edited == { IF b.id = id /\ IsSome(totalOpt)
                             THEN [b EXCEPT !.totalAmount = Val(totalOpt)]
                             ELSE b : b \in bills }
           IN  /\ bills' = updateBillStatus(edited, payments, id)
               /\ billReq' = BillResp("editBill", id, 200)
               /\ UNCHANGED <<payments, nextBillId, nextPaymentId>>

\* the payments that remain when a bill is deleted: those of the other bills
BillCascade(ps, id) == { p \in ps : p.billId # id }

\* DELETE /api/bills/:id
DeleteBill(id) ==
    IF BillById(bills, id) = {}
      THEN /\ billReq' = BillResp("deleteBill", id, 404)    \* P2025
           /\ UNCHANGED <<bills, payments, nextBillId, nextPaymentId>>
      ELSE /\ bills' = { b \in bills : b.id # id }
           /\ payments' = BillCascade(payments, id)
           /\ billReq' = BillResp("deleteBill", id, 200)
           /\ UNCHANGED <<nextBillId, nextPaymentId>>

\* POST /api/bills/:id/payments
CreatePayment(billId, amount, dueDateStr, paidAtStr) ==
    /\ nextPaymentId <= MaxPayments
    /\ IF amount <= 0 \/ ~IsSome(parseDateOnlyAsNoonUTC(dueDateStr))
         THEN /\ billReq' = BillResp("createPayment", billId, 400)
              /\ UNCHANGED <<bills, payments, nextBillId, nextPaymentId>>
         ELSE IF BillById(bills, billId) = {}
         THEN /\ billReq' = BillResp("createPayment", billId, 404)   \* P2003
              /\ UNCHANGED <<bills, payments, nextBillId, nextPaymentId>>
         ELSE LET ps == payments \cup
                          {[id |-> nextPaymentId, billId |-> billId, amount |-> amount,
                            dueDate |-> parseDateOnlyAsNoonUTC(dueDateStr),
                            paidAt |-> parseDateOnlyAsNoonUTC(paidAtStr)]}
              IN  /\ payments' = ps
                  /\ nextPaymentId' = nextPaymentId + 1
                  /\ bills' = updateBillStatus(bills, ps, billId)
                  /\ billReq' = BillResp("createPayment", billId, 200)
                  /\ UNCHANGED nextBillId

\* The paidAt of a PATCH body: left out, null or "", or a date text.
PaidAtPatches == {"absent", "null", "date"}

PatchedPaidAt(p, paidAtPatch) ==
    IF paidAtPatch = "null" THEN None
    ELSE IF paidAtPatch = "date"
      THEN parseDateOnlyAsNoonUTC([kind |-> "ymd", y |-> 2026, m |-> 1, d |-> 5])
    ELSE p.paidAt       \* left out: data.paidAt is not set

\* PATCH /api/bills/:id/payments/:paymentId
UpdatePayment(billId, paymentId, amountOpt, paidAtPatch) ==
    LET ps == { IF p.id = paymentId /\ p.billId = billId
                  THEN [p EXCEPT !.amount = IF IsSome(amountOpt) THEN Val(amountOpt) ELSE @,
                                 !.paidAt = PatchedPaidAt(p, paidAtPatch)]
                  ELSE p : p \in payments }
    IN  /\ payments' = ps
        /\ bills' = updateBillStatus(bills, ps, billId)
        /\ billReq' = BillResp("updatePayment", billId, 200)
        /\ UNCHANGED <<nextBillId, nextPaymentId>>

\* A DELETE of a payment that leaves the stored status as it was
DeletePaymentStale(billId, paymentId) ==
    /\ payments' = { p \in payments : ~(p.id = paymentId /\ p.billId = billId) }
    /\ billReq' = BillResp("deletePayment", billId, 200)
    /\ UNCHANGED <<bills, nextBillId, nextPaymentId>>

\* DELETE /api/bills/:id/payments/:paymentId
DeletePayment(billId, paymentId) ==
    LET ps == { p \in payments : ~(p.id = paymentId /\ p.billId = billId) }
    IN  /\ payments' = ps
        /\ bills' = updateBillStatus(bills, ps, billId)
        /\ billReq' = BillResp("deletePayment", billId, 200)
        /\ UNCHANGED <<nextBillId, nextPaymentId>>

\* for (const item of installments): rows with amount <= 0 or no valid due date are
\* skipped, the others become unpaid payments with consecutive ids
RECURSIVE InstallmentRows(_, _, _)
InstallmentRows(items, billId, firstId) ==
    IF items = <<>> THEN {}
    ELSE LET it == Head(items)
             due == parseDateOnlyAsNoonUTC(it.dueDate)
         IN  IF it.amount <= 0 \/ ~IsSome(due)
               THEN InstallmentRows(Tail(items), billId, firstId)
               ELSE {[id |-> firstId, billId |-> billId, amount |-> it.amount,
                      dueDate |-> due, paidAt |-> None]}
                    \cup InstallmentRows(Tail(items), billId, firstId + 1)

\* POST /api/bills/:id/installments
GenerateInstallments(billId, items) ==
    /\ IF BillById(bills, billId) = {}
         THEN /\ billReq' = BillResp("installments", billId, 404)
              /\ UNCHANGED <<bills, payments, nextBillId, nextPaymentId>>
         ELSE LET rows == InstallmentRows(items, billId, nextPaymentId)
                  ps == payments \cup rows
              IN  /\ payments' = ps
                  /\ nextPaymentId' = nextPaymentId + Cardinality(rows)
                  /\ bills' = updateBillStatus(bills, ps, billId)
                  /\ billReq' = BillResp("installments", billId, 200)
                  /\ UNCHANGED nextBillId

InstallmentItems == [amount : {0, 1}, dueDate : DateStrs]
InstallmentLists(n) == [1..n -> InstallmentItems]

BillsInit ==
    /\ bills = {}
    /\ payments = {}
    /\ nextBillId = 1
    /\ nextPaymentId = 1
    /\ billReq = [op |-> "none", billId |-> 0, code |-> 0, before |-> None]

BillsNext ==
    \/ \E t \in Amounts : CreateBill(t)
    \/ \E id \in BillIds, t \in {None} \cup {Some(a) : a \in Amounts} : EditBill(id, t)
    \/ \E id \in BillIds : DeleteBill(id)
    \/ \E id \in BillIds, a \in Amounts, due \in DateStrs, paid \in DateStrs :
          CreatePayment(id, a, due, paid)
    \/ \E id \in BillIds, pid \in PaymentIds,
          a \in {None} \cup {Some(x) : x \in Amounts}, paid \in PaidAtPatches :
          UpdatePayment(id, pid, a, paid)
    \/ \E id \in BillIds, pid \in PaymentIds : DeletePayment(id, pid)
    \/ \E id \in BillIds, n \in 1..(MaxPayments + 1 - nextPaymentId) :
          \E items \in InstallmentLists(n) : GenerateInstallments(id, items)

(***************************************************************************)
(* Claims about bills                                                      *)
(***************************************************************************)
PaymentOps == {"createPayment", "updatePayment", "deletePayment"}

RECURSIVE AmountSum(_)
AmountSum(S) ==
    IF S = {} THEN 0
    ELSE LET p == CHOOSE q \in S : TRUE
         IN  p.amount + AmountSum(S \ {p})

\* the sum of the amounts of the payments of a bill that carry a paid date
PaidSum(ps, billId) == AmountSum({ p \in ps : p.billId = billId /\ IsSome(p.paidAt) })

\* the status the claim derives, its cases read in the order it lists them
DerivedStatus(sum, total) ==
    IF sum >= total THEN "paid"
    ELSE IF sum > 0 /\ sum < total THEN "partial"
    ELSE IF sum = 0 THEN "pending"
    ELSE "unspecified"

C2_PaidIsNotTerminal ==
    [][ \A b \in bills :
          ( /\ b.status = "paid"
            /\ billReq'.op \in {"updatePayment", "deletePayment"}
            /\ billReq'.billId = b.id
            /\ PaidSum(payments', b.id) < b.totalAmount )
          => \A c \in BillById(bills', b.id) :
                /\ PaidSum(payments', b.id) > 0 => c.status = "partial"
                /\ PaidSum(payments', b.id) = 0 => c.status = "pending" ]_vars

\* a payment of a paid bill was deleted or edited and the bill is partial again
C2_Witness ==
    /\ billReq.op \in {"updatePayment", "deletePayment"}
    /\ billReq.before = Some("paid")
    /\ \E b \in BillById(bills, billReq.billId) :
          b.status = "partial" /\ PaidSum(payments, b.id) < b.totalAmount

\* C24: in every state reachable by bill create, bill edit (of the total amount too),
\* installment generation and payment create, update and delete, a bill whose paid
\* installments sum to 0 has status 'pending'.
C24_NothingPaidIsPending ==
    \A b \in bills : PaidSum(payments, b.id) = 0 => b.status = "pending"

(***************************************************************************)
(* Text.  A status is a sequence of characters, so that toLowerCase,       *)
(* trim and includes are computed as the code computes them.  "a~" is the  *)
(* letter a with a tilde, "i'" the letter i with an acute accent.          *)
(***************************************************************************)
UpperChars == <<"A", "B", "C", "D", "E", "F", "G", "H", "I", "J", "K", "L", "M",
                "N", "O", "P", "Q", "R", "S", "T", "U", "V", "W", "X", "Y", "Z",
                "A~", "I'">>
LowerChars == <<"a", "b", "c", "d", "e", "f", "g", "h", "i", "j", "k", "l", "m",
                "n", "o", "p", "q", "r", "s", "t", "u", "v", "w", "x", "y", "z",
                "a~", "i'">>

ToLowerChar(c) ==
    IF \E i \in 1..Len(UpperChars) : UpperChars[i] = c
      THEN LowerChars[CHOOSE i \in 1..Len(UpperChars) : UpperChars[i] = c]
      ELSE c

\* String.prototype.toLowerCase
toLowerCase(s) == [i \in 1..Len(s) |-> ToLowerChar(s[i])]

\* String.prototype.includes
Includes(s, sub) ==
    \E i \in 0..(Len(s) - Len(sub)) : \A j \in 1..Len(sub) : s[i + j] = sub[j]

RECURSIVE TrimStart(_)
TrimStart(s) == IF s # <<>> /\ Head(s) = " " THEN TrimStart(Tail(s)) ELSE s

RECURSIVE TrimEnd(_)
TrimEnd(s) ==
    IF s # <<>> /\ s[Len(s)] = " " THEN TrimEnd(SubSeq(s, 1, Len(s) - 1)) ELSE s

\* String.prototype.trim
Trim(s) == TrimEnd(TrimStart(s))

Completed == <<"C", "o", "n", "c", "l", "u", "i'", "d", "o">>
Cancelled == <<"C", "a", "n", "c", "e", "l", "a", "d", "o", " ">>
Unpaid == <<"N", "a~", "o", " ", "p", "a", "g", "o">>
Desconhecido == <<"D", "e", "s", "c", "o", "n", "h", "e", "c", "i", "d", "o">>

(***************************************************************************)
(* Spreadsheet cells.  sheet_to_json(..., {defval: '', raw: true}) gives a *)
(* number for a numeric cell and '' for an empty one; pick() returns       *)
(* undefined for '' .  A numeric or text cell that may be empty is None or *)
(* Some(v); a date cell is empty, a text that is no date, or an Excel      *)
(* serial number.                                                          *)
(***************************************************************************)
ExcelEpoch == 25569

NoDate == [kind |-> "empty", v |-> 0]
JunkDate == [kind |-> "text", v |-> 0]
Serial(day) == [kind |-> "serial", v |-> ExcelEpoch + day]

\* a text cell dd/mm/yyyy with an optional time <<hh, min, ss>>, as the regular
\* expression of parseDateFlexible captures it
DmyText(dd, mm, yyyy, time) ==
    [kind |-> "dmy", v |-> 0, dd |-> dd, mm |-> mm, yyyy |-> yyyy, time |-> time]

\* the day number (days since 1970-01-01) of the civil date y-m-d, 1 <= m <= 12,
\* in the proleptic Gregorian calendar; d may lie outside the month
DaysFromCivil(y, m, d) ==
    LET yy == IF m <= 2 THEN y - 1 ELSE y
        era == yy \div 400
        yoe == yy - era * 400
        doy == (153 * (IF m > 2 THEN m - 3 ELSE m + 9) + 2) \div 5 + d - 1
        doe == yoe * 365 + yoe \div 4 - yoe \div 100 + doy
    IN  era * 146097 + doe - 719468

\* getFullYear(), getMonth() + 1, getDate() of a day number
CivilFromDays(z) ==
    LET zz == z + 719468
        era == zz \div 146097
        doe == zz - era * 146097
        yoe == (doe - doe \div 1460 + doe \div 36524 - doe \div 146096) \div 365
        doy == doe - (365 * yoe + yoe \div 4 - yoe \div 100)
        mp == (5 * doy + 2) \div 153
        d == doy - (153 * mp + 2) \div 5 + 1
        m == IF mp < 10 THEN mp + 3 ELSE mp - 9
        y == yoe + era * 400 + (IF m <= 2 THEN 1 ELSE 0)
    IN  <<y, m, d>>

\* new Date(year, month, date, hh, min, ss) in days: a year 0..99 means 1900 + year,
\* and a month, a day or a time out of range carries over into the next unit
MakeDate(year, month, date, hh, min, ss) ==
    LET y == IF year >= 0 /\ year <= 99 THEN 1900 + year ELSE year
        ym == y + month \div 12
        mn == month % 12
    IN  DaysFromCivil(ym, mn + 1, 1) + date - 1 + (hh * 3600 + min * 60 + ss) \div 86400

\* parseDateFlexible: null for undefined and for a text new Date() cannot read; for a
\* number, new Date(Math.round((v - 25569) * 86400 * 1000)); for dd/mm/yyyy with an
\* optional time, new Date(yyyy, mm - 1, dd, hh, min, ss).  Dates are kept in days.
parseDateFlexible(c) ==
    IF c.kind = "serial" THEN Some(c.v - ExcelEpoch)
    ELSE IF c.kind = "dmy"
      THEN LET t == IF IsSome(c.time) THEN Val(c.time) ELSE <<0, 0, 0>>
           IN  Some(MakeDate(c.yyyy, c.mm - 1, c.dd, t[1], t[2], t[3]))
    ELSE None

\* parseBrNumber of a cell: 0 for undefined, the number itself for a numeric cell
parseBrNumber(c) == IF IsSome(c) THEN Val(c) ELSE 0

(***************************************************************************)
(* Numbers of spreadsheet cells and request bodies.  A number is a         *)
(* fraction num / den with den a power of ten, or one of the two values    *)
(* that are no finite number.  JSON.parse reads 1e999 as Infinity.         *)
(***************************************************************************)
Finite(n, d) == [fin |-> TRUE, num |-> n, den |-> d]
Infinity == [fin |-> FALSE, num |-> 1, den |-> 0]
NaN == [fin |-> FALSE, num |-> 0, den |-> 0]

Digits == <<"0", "1", "2", "3", "4", "5", "6", "7", "8", "9">>
IsDigit(c) == \E i \in 1..Len(Digits) : Digits[i] = c
DigitOf(c) == (CHOOSE i \in 1..Len(Digits) : Digits[i] = c) - 1

RECURSIVE DigitsValue(_)
DigitsValue(s) ==
    IF s = <<>> THEN 0
    ELSE DigitsValue(SubSeq(s, 1, Len(s) - 1)) * 10 + DigitOf(s[Len(s)])

RECURSIVE Pow10(_)
Pow10(n) == IF n = 0 THEN 1 ELSE 10 * Pow10(n - 1)

\* String.prototype.lastIndexOf, counted from 1; 0 when c does not occur
LastIndexOf(s, c) ==
    IF \E i \in 1..Len(s) : s[i] = c
      THEN CHOOSE i \in 1..Len(s) : s[i] = c /\ \A j \in (i + 1)..Len(s) : s[j] # c
      ELSE 0

\* s.replace(/c/g, '')
RemoveAll(s, c) == SelectSeq(s, LAMBDA x : x # c)

\* s.replace(c, by): the first occurrence only
ReplaceFirst(s, c, by) ==
    IF \E i \in 1..Len(s) : s[i] = c
      THEN LET i == CHOOSE k \in 1..Len(s) : s[k] = c /\ \A j \in 1..(k - 1) : s[j] # c
           IN  [s EXCEPT ![i] = by]
      ELSE s

\* s.replace(/marker\s?/g, ''): every occurrence of the marker, with one white space
\* after it, is removed, scanning from the left
RECURSIVE StripMarker(_, _)
StripMarker(s, marker) ==
    IF s = <<>> THEN <<>>
    ELSE IF Len(s) >= Len(marker) /\ SubSeq(s, 1, Len(marker)) = marker
      THEN LET rest == SubSeq(s, Len(marker) + 1, Len(s))
           IN  IF rest # <<>> /\ Head(rest) = " "
                 THEN StripMarker(Tail(rest), marker)
                 ELSE StripMarker(rest, marker)
    ELSE <<Head(s)>> \o StripMarker(Tail(s), marker)

\* Number(s) for a string of digits, signs, dots, spaces and other characters that
\* are no part of a numeric literal: white space around the literal is ignored, the
\* empty string is 0, and a string that is no decimal literal is NaN
StringToNumber(s) ==
    LET t == Trim(s)
        signed == t # <<>> /\ Head(t) \in {"+", "-"}
        u == IF signed THEN Tail(t) ELSE t
        sign == IF signed /\ Head(t) = "-" THEN 0 - 1 ELSE 1
        dot == LastIndexOf(u, ".")
        int == IF dot = 0 THEN u ELSE SubSeq(u, 1, dot - 1)
        frac == IF dot = 0 THEN <<>> ELSE SubSeq(u, dot + 1, Len(u))
    IN  IF t = <<>> THEN Finite(0, 1)
        ELSE IF u = <<"I", "n", "f", "i", "n", "i", "t", "y">> THEN Infinity
        ELSE IF /\ \A i \in 1..Len(int) : IsDigit(int[i])
                /\ \A i \in 1..Len(frac) : IsDigit(frac[i])
                /\ Len(int) + Len(frac) >= 1
          THEN Finite(sign * DigitsValue(int \o frac), Pow10(Len(frac)))
        ELSE NaN

\* parseBrNumber of a string
parseBrNumberString(v) ==
    LET s == StripMarker(StripMarker(Trim(v), <<"R", "$">>), <<"B", "R", "L">>)
        hasComma == \E i \in 1..Len(s) : s[i] = ","
        hasDot == \E i \in 1..Len(s) : s[i] = "."
        t == IF hasComma /\ hasDot
               THEN IF LastIndexOf(s, ",") > LastIndexOf(s, ".")
                      THEN ReplaceFirst(RemoveAll(s, "."), ",", ".")
                      ELSE RemoveAll(s, ",")
             ELSE IF hasComma THEN ReplaceFirst(s, ",", ".")
             ELSE s
        n == StringToNumber(t)
    IN  IF s = <<>> THEN Finite(0, 1)
        ELSE IF n.fin THEN n ELSE Finite(0, 1)

\* a value handed to parseBrNumber: null or undefined, a number, or a string
NullValue == [kind |-> "null", n |-> NaN, s |-> <<>>]
NumberValue(n) == [kind |-> "number", n |-> n, s |-> <<>>]
TextValue(s) == [kind |-> "text", n |-> NaN, s |-> s]

\* parseBrNumber of any value
parseBrNumberOf(v) ==
    IF v.kind = "null" THEN Finite(0, 1)
    ELSE IF v.kind = "number" THEN v.n
    ELSE parseBrNumberString(v.s)

(***************************************************************************)
(* The store: Order, OrderItem and Product rows                            *)
(***************************************************************************)
Channels == {"shopee", "tiktok", "tray"}

EmptyDb == [orders |-> {}, items |-> {}, products |-> {},
            nOrder |-> 1, nItem |-> 1, nProduct |-> 1]

\* the row with the columns of data written over it
Overlay(row, data) ==
    [f \in DOMAIN row \cup DOMAIN data |-> IF f \in DOMAIN data THEN data[f] ELSE row[f]]

\* columns a create may leave out are null
OrderDefaults == [commissionFee |-> None, serviceFee |-> None,
                  freight |-> None, paymentType |-> None]
ItemDefaults == [discount |-> None, productId |-> None]

OrderMatches(o, w) == o.orderId = w.orderId /\ o.source = w.source

ItemMatches(i, w) ==
    i.orderId = w.orderId /\ i.source = w.source /\ i.productCode = w.productCode

\* an upsert that inserts without looking for the row
OrderUpsertBlind(d, w, upd, cre) ==
    [d EXCEPT !.orders = @ \cup {Overlay(Overlay(OrderDefaults, cre), [id |-> d.nOrder])},
              !.nOrder = @ + 1]

\* prisma.order.upsert({ where: { orderId_source }, update, create })
OrderUpsert(d, w, upd, cre) ==
    IF \E o \in d.orders : OrderMatches(o, w)
      THEN [d EXCEPT !.orders =
                { IF OrderMatches(o, w) THEN Overlay(o, upd) ELSE o : o \in d.orders }]
      ELSE [d EXCEPT !.orders =
                @ \cup {Overlay(Overlay(OrderDefaults, cre), [id |-> d.nOrder])},
                     !.nOrder = @ + 1]

\* prisma.orderItem.upsert({ where: { orderId_source_productCode }, update, create })
ItemUpsert(d, w, upd, cre) ==
    IF \E i \in d.items : ItemMatches(i, w)
      THEN [d EXCEPT !.items =
                { IF ItemMatches(i, w) THEN Overlay(i, upd) ELSE i : i \in d.items }]
      ELSE [d EXCEPT !.items =
                @ \cup {Overlay(Overlay(ItemDefaults, cre), [id |-> d.nItem])},
                     !.nItem = @ + 1]

\* prisma.order.updateMany({ where: { orderId, source }, data })
OrderUpdateMany(d, w, data) ==
    [d EXCEPT !.orders =
        { IF OrderMatches(o, w) THEN Overlay(o, data) ELSE o : o \in d.orders }]

ApplyOp(d, op) ==
    CASE op.kind = "order.upsert" -> OrderUpsert(d, op.where, op.update, op.create)
      [] op.kind = "orderItem.upsert" -> ItemUpsert(d, op.where, op.update, op.create)
      [] op.kind = "order.updateMany" -> OrderUpdateMany(d, op.where, op.data)

RECURSIVE Transaction(_, _)
\* prisma.$transaction(ops): the writes in order, all of them or none
Transaction(d, ops) ==
    IF ops = <<>> THEN d ELSE Transaction(ApplyOp(d, Head(ops)), Tail(ops))

ProductCode(source, productCode) == <<source, "_", productCode>>

ProductByCode(d, code) == { p \in d.products : p.code = code }

\* ensureProduct: upsert by code; the name is updated, a new product has no cost price
\* an ensureProduct that writes the whole row again and so forgets the cost price
ensureProductReset(d, source, productCode, name) ==
    LET code == ProductCode(source, productCode)
    IN  IF ProductByCode(d, code) # {}
          THEN [d EXCEPT !.products =
                    { IF p.code = code THEN [p EXCEPT !.name = name, !.costPrice = None]
                      ELSE p : p \in @ }]
          ELSE [d EXCEPT !.products =
                    @ \cup {[id |-> d.nProduct, code |-> code, name |-> name,
                             costPrice |-> None, source |-> source]},
                         !.nProduct = @ + 1]

ensureProduct(d, source, productCode, name) ==
    LET code == ProductCode(source, productCode)
    IN  IF ProductByCode(d, code) # {}
          THEN [d EXCEPT !.products =
                    { IF p.code = code THEN [p EXCEPT !.name = name] ELSE p : p \in @ }]
          ELSE [d EXCEPT !.products =
                    @ \cup {[id |-> d.nProduct, code |-> code, name |-> name,
                             costPrice |-> None, source |-> source]},
                         !.nProduct = @ + 1]

\* the id ensureProduct returns
ProductIdOf(d, source, productCode) ==
    (CHOOSE p \in ProductByCode(d, ProductCode(source, productCode)) : TRUE).id

RECURSIVE EnsureAll(_, _, _, _, _)
\* for (const r of rows) if (!productIds.has(key)) productIds.set(key, await ensureProduct(...))
\* failAt = k > 0: the k-th ensureProduct call throws; the earlier ones are committed
EnsureAll(d, source, rows, seen, failAt) ==
    IF rows = <<>> THEN [db |-> d, failed |-> FALSE]
    ELSE LET r == Head(rows)
         IN  IF r.productCode \in seen
               THEN EnsureAll(d, source, Tail(rows), seen, failAt)
               ELSE IF failAt = 1 THEN [db |-> d, failed |-> TRUE]
               ELSE EnsureAll(ensureProduct(d, source, r.productCode, r.name), source,
                              Tail(rows), seen \cup {r.productCode},
                              IF failAt > 1 THEN failAt - 1 ELSE failAt)

\* the number of ensureProduct calls a file causes
EnsureCalls(rows) == Cardinality({ rows[i].productCode : i \in 1..Len(rows) })

(***************************************************************************)
(* Helpers over the standardized rows of a file                            *)
(***************************************************************************)
\* jsonData.map(standardize).filter(r => r !== null), standardized rows as options
RECURSIVE Compact(_)
Compact(opts) ==
    IF opts = <<>> THEN <<>>
    ELSE IF IsSome(Head(opts)) THEN <<Val(Head(opts))>> \o Compact(Tail(opts))
    ELSE Compact(Tail(opts))

RECURSIVE OrderIdsInOrder(_, _)
\* the keys of the byOrder Map, in insertion order
OrderIdsInOrder(rows, seen) ==
    IF rows = <<>> THEN <<>>
    ELSE IF Head(rows).orderId \in seen THEN OrderIdsInOrder(Tail(rows), seen)
    ELSE <<Head(rows).orderId>> \o OrderIdsInOrder(Tail(rows), seen \cup {Head(rows).orderId})

RowsOfOrder(rows, orderId) == SelectSeq(rows, LAMBDA r : r.orderId = orderId)

RECURSIVE SumQuantity(_)
SumQuantity(rows) ==
    IF rows = <<>> THEN 0 ELSE Head(rows).quantity + SumQuantity(Tail(rows))

RECURSIVE SumTotalPrice(_)
SumTotalPrice(rows) ==
    IF rows = <<>> THEN 0 ELSE Head(rows).totalPrice + SumTotalPrice(Tail(rows))

(***************************************************************************)
(* Channel normalizers.  Money is in cents, so Number(x.toFixed(2)) keeps  *)
(* a value as it is.  Every row of the files below carries a SKU, so the   *)
(* product code is never the hash of the product name.                     *)
(***************************************************************************)
\* x || null
OrNull(n) == IF n = 0 THEN None ELSE Some(n)

\* statusVal ? String(statusVal).trim() : 'Desconhecido'
StatusOf(cell) == IF IsSome(cell) THEN Trim(Val(cell)) ELSE Desconhecido

\* a normalizer that keeps the rows it should drop
standardizeShopeeRowKeep(row) ==
    Some([orderId |-> row.orderId,
          orderDate |-> IF IsSome(parseDateFlexible(row.date))
                          THEN Val(parseDateFlexible(row.date)) ELSE 0,
          status |-> StatusOf(row.status),
          commissionFee |-> row.commission, serviceFee |-> row.service,
          productCode |-> row.skuId, name |-> row.productName,
          unitPrice |-> parseBrNumber(row.unitPrice), quantity |-> row.qty,
          totalPrice |-> parseBrNumber(row.price), discount |-> row.discount])

standardizeShopeeRow(row) ==
    LET orderId == row.orderId
        orderDate == parseDateFlexible(row.date)
        quantity == row.qty
        totalPrice == parseBrNumber(row.price)
        unitPrice == IF IsSome(row.unitPrice) THEN parseBrNumber(row.unitPrice)
                     ELSE IF quantity > 0 THEN totalPrice \div quantity ELSE 0
        discount == IF IsSome(row.discount) THEN Some(parseBrNumber(row.discount))
                    ELSE IF IsSome(row.platformDisc) \/ IsSome(row.sellerDisc)
                      THEN OrNull(parseBrNumber(row.platformDisc) + parseBrNumber(row.sellerDisc))
                    ELSE None
    IN  IF orderId = "" \/ ~IsSome(orderDate) THEN None
        ELSE Some([orderId |-> orderId, orderDate |-> Val(orderDate),
                   status |-> StatusOf(row.status),
                   commissionFee |-> IF IsSome(row.commission)
                                       THEN Some(parseBrNumber(row.commission)) ELSE None,
                   serviceFee |-> IF IsSome(row.service)
                                    THEN Some(parseBrNumber(row.service)) ELSE None,
                   productCode |-> row.skuId, name |-> row.productName,
                   unitPrice |-> unitPrice, quantity |-> quantity,
                   totalPrice |-> totalPrice, discount |-> discount])

standardizeTiktokRow(row) ==
    LET orderId == row.orderId
        orderDate == parseDateFlexible(row.date)
        productCode == IF row.sellerSku # "" THEN row.sellerSku ELSE row.skuId
        sum == parseBrNumber(row.platformDisc) + parseBrNumber(row.sellerDisc)
        discount == OrNull(sum)
    IN  IF orderId = "" \/ ~IsSome(orderDate) THEN None
        ELSE Some([orderId |-> orderId, orderDate |-> Val(orderDate),
                   status |-> StatusOf(row.status),
                   productCode |-> productCode, name |-> row.productName,
                   unitPrice |-> parseBrNumber(row.unitPrice), quantity |-> row.qty,
                   totalPrice |-> parseBrNumber(row.price),
                   discount |-> IF IsSome(discount) /\ Val(discount) > 0
                                  THEN discount ELSE None])

\* parseDateAndTime with no time cell: the date alone
parseDateAndTime(dateCell) == parseDateFlexible(dateCell)

\* standardizeData(row, 'tray'); an absent freight or payment type is left out of the record
standardizeTray(row) ==
    LET orderId == row.orderId
        orderDate == parseDateAndTime(row.date)
        base == [orderId |-> orderId, source |-> "tray",
                 orderDate |-> IF IsSome(orderDate) THEN Val(orderDate) ELSE 0,
                 productName |-> IF row.channel # "" THEN <<"Pedido", row.channel>>
                                 ELSE <<"Pedido", "Tray">>,
                 quantity |-> 1, totalPrice |-> parseBrNumber(row.total),
                 status |-> StatusOf(row.status)]
        withFreight == IF IsSome(row.freight)
                         THEN Overlay(base, [freight |-> Some(parseBrNumber(row.freight))])
                         ELSE base
        withPayment == IF row.paymentType # ""
                         THEN Overlay(withFreight, [paymentType |-> Some(row.paymentType)])
                         ELSE withFreight
    IN  IF orderId = "" \/ ~IsSome(orderDate) THEN None ELSE Some(withPayment)

standardizeTrayItem(row) ==
    LET quantity == row.qty
        unitPrice == parseBrNumber(row.unitPrice)
    IN  IF row.orderId = "" \/ row.productCode = "" \/ row.name = "" THEN None
        ELSE IF quantity <= 0 THEN None
        ELSE Some([orderId |-> row.orderId, source |-> "tray",
                   productCode |-> row.productCode, name |-> <<row.name>>,
                   unitPrice |-> unitPrice, quantity |-> quantity,
                   totalPrice |-> unitPrice * quantity])

(***************************************************************************)
(* The files the ingestions are tried on                                   *)
(***************************************************************************)
ShopeeRow(orderId, date, status, skuId, productName, qty, price, discount) ==
    [orderId |-> orderId, date |-> date, status |-> status, skuId |-> skuId,
     productName |-> <<productName>>, qty |-> qty, price |-> Some(price),
     unitPrice |-> None, discount |-> discount, platformDisc |-> None,
     sellerDisc |-> None, commission |-> None, service |-> None]

TiktokRow(orderId, date, status, skuId, productName, qty, price, sellerDisc, orderAmount) ==
    [orderId |-> orderId, date |-> date, status |-> status, sellerSku |-> "",
     skuId |-> skuId, productName |-> <<productName>>, qty |-> qty,
     unitPrice |-> Some(price \div Max(qty, 1)), price |-> Some(price),
     platformDisc |-> None, sellerDisc |-> sellerDisc, orderAmount |-> orderAmount]

TrayRow(orderId, date, status, total, freight, paymentType) ==
    [orderId |-> orderId, date |-> date, status |-> status, total |-> Some(total),
     freight |-> freight, paymentType |-> paymentType, channel |-> ""]

TrayItemRow(orderId, productCode, name, unitPrice, qty) ==
    [orderId |-> orderId, productCode |-> productCode, name |-> name,
     unitPrice |-> Some(unitPrice), qty |-> qty]

ShopeeFiles ==
    [s1 |-> <<ShopeeRow("A", Serial(10), Some(Completed), "p1", "Mug", 2, 20, None)>>,
     s2 |-> <<[ShopeeRow("A", Serial(10), Some(Completed), "p1", "Mug XL", 1, 10, Some(3))
                 EXCEPT !.commission = Some(2), !.service = Some(1)],
              ShopeeRow("A", Serial(10), Some(Completed), "p2", "Cup", 3, 15, None)>>,
     s3 |-> <<ShopeeRow("", Serial(10), Some(Completed), "p1", "Mug", 1, 10, None),
              ShopeeRow("B", Serial(40), Some(Cancelled), "p2", "Cup", 3, 30, None),
              ShopeeRow("B", JunkDate, Some(Completed), "p1", "Mug", 1, 10, None)>>,
     s4 |-> <<ShopeeRow("B", NoDate, Some(Completed), "p2", "Cup", 1, 10, None),
              ShopeeRow("A", Serial(12), None, "p1", "Mug", 1, 10, None),
              ShopeeRow("A", Serial(12), None, "p1", "Mug", 2, 20, Some(1))>>]

TiktokFiles ==
    [k1 |-> <<TiktokRow("A", Serial(10), Some(Completed), "p1", "Mug", 2, 20, None, Some(25))>>,
     k2 |-> <<TiktokRow("A", JunkDate, Some(Completed), "p1", "Mug", 1, 10, None, Some(40)),
              TiktokRow("A", Serial(11), Some(Unpaid), "p1", "Mug", 1, 10, Some(2), None),
              TiktokRow("A", Serial(11), Some(Unpaid), "p2", "Cup", 2, 10, None, None)>>,
     k3 |-> <<TiktokRow("B", Serial(40), None, "p2", "Cup XL", 1, 30, None, None),
              TiktokRow("", Serial(40), None, "p2", "Cup", 1, 30, None, None)>>]

TrayFiles ==
    [t1 |-> <<TrayRow("A", Serial(10), Some(Completed), 50, Some(5), "pix")>>,
     t2 |-> <<TrayRow("A", Serial(11), Some(Unpaid), 60, None, ""),
              TrayRow("", Serial(11), Some(Completed), 10, None, "")>>,
     t3 |-> <<TrayRow("B", JunkDate, Some(Completed), 40, None, ""),
              TrayRow("B", Serial(40), Some(Cancelled), 40, Some(0), "card")>>]

TrayItemFiles ==
    [i1 |-> <<TrayItemRow("A", "p1", "Mug", 10, 2), TrayItemRow("A", "p2", "Cup", 5, 1)>>,
     i2 |-> <<TrayItemRow("A", "p1", "Mug XL", 12, 3), TrayItemRow("B", "p2", "Cup", 5, 0),
              TrayItemRow("", "p2", "Cup", 5, 1)>>,
     i3 |-> <<TrayItemRow("C", "p1", "Mug", 10, 1), TrayItemRow("B", "", "Cup", 5, 1)>>]

(***************************************************************************)
(* POST /api/upload and POST /api/upload-items                             *)
(***************************************************************************)
\* jsonData.map(standardizeShopeeRow).filter(r => r !== null)
ShopeeRows(file) ==
    Compact([i \in 1..Len(ShopeeFiles[file]) |-> standardizeShopeeRow(ShopeeFiles[file][i])])

TiktokRows(file) ==
    Compact([i \in 1..Len(TiktokFiles[file]) |-> standardizeTiktokRow(TiktokFiles[file][i])])

TraySales(file) ==
    Compact([i \in 1..Len(TrayFiles[file]) |-> standardizeTray(TrayFiles[file][i])])

TrayItems(file) ==
    Compact([i \in 1..Len(TrayItemFiles[file]) |-> standardizeTrayItem(TrayItemFiles[file][i])])

\* what may go wrong in one request: nothing (0), the k-th ensureProduct call
\* throws (k), or prisma.$transaction throws and rolls back (-1)
TxFault == 0 - 1
FaultsOf(rows) == TxFault..EnsureCalls(rows)

\* one order upsert per key of byOrder, from the first row of the order and the sums
ShopeeOrderOps(rows) ==
    LET ids == OrderIdsInOrder(rows, {})
    IN  [k \in 1..Len(ids) |->
            LET rs == RowsOfOrder(rows, ids[k])
                data == [orderDate |-> rs[1].orderDate, status |-> rs[1].status,
                         totalPrice |-> SumTotalPrice(rs), quantity |-> SumQuantity(rs),
                         productName |-> rs[1].name,
                         commissionFee |-> rs[1].commissionFee,
                         serviceFee |-> rs[1].serviceFee]
            IN  [kind |-> "order.upsert",
                 where |-> [orderId |-> ids[k], source |-> "shopee"],
                 update |-> data,
                 create |-> Overlay(data, [orderId |-> ids[k], source |-> "shopee"])]]

\* jsonData.find(row => String(row['Order ID'] ?? '').trim() === key)?.['Order Amount']
FirstOrderAmount(raw, orderId) ==
    LET hits == SelectSeq(raw, LAMBDA row : row.orderId = orderId)
    IN  IF hits = <<>> THEN None ELSE hits[1].orderAmount

TiktokOrderOps(raw, rows) ==
    LET ids == OrderIdsInOrder(rows, {})
    IN  [k \in 1..Len(ids) |->
            LET rs == RowsOfOrder(rows, ids[k])
                orderAmount == parseBrNumber(FirstOrderAmount(raw, ids[k]))
                orderTotal == IF orderAmount > 0 THEN orderAmount ELSE SumTotalPrice(rs)
                data == [orderDate |-> rs[1].orderDate, status |-> rs[1].status,
                         totalPrice |-> orderTotal, quantity |-> SumQuantity(rs),
                         productName |-> rs[1].name]
            IN  [kind |-> "order.upsert",
                 where |-> [orderId |-> ids[k], source |-> "tiktok"],
                 update |-> data,
                 create |-> Overlay(data, [orderId |-> ids[k], source |-> "tiktok"])]]

\* one item upsert per row (shopee and tiktok alike): update writes r.discount,
\* create writes r.discount ?? 0
ItemUpsertOps(d, source, rows) ==
    [k \in 1..Len(rows) |->
        LET r == rows[k]
            line == [name |-> r.name, unitPrice |-> r.unitPrice, quantity |-> r.quantity,
                     totalPrice |-> r.totalPrice,
                     productId |-> Some(ProductIdOf(d, source, r.productCode))]
        IN  [kind |-> "orderItem.upsert",
             where |-> [orderId |-> r.orderId, source |-> source,
                        productCode |-> r.productCode],
             update |-> Overlay(line, [discount |-> r.discount]),
             create |-> Overlay(line,
                          [orderId |-> r.orderId, source |-> source,
                           productCode |-> r.productCode,
                           discount |-> IF IsSome(r.discount) THEN r.discount ELSE Some(0)])]]

\* the generic branch: update and create are the same data
TrayOrderOps(sales) ==
    [k \in 1..Len(sales) |->
        [kind |-> "order.upsert",
         where |-> [orderId |-> sales[k].orderId, source |-> sales[k].source],
         update |-> sales[k], create |-> sales[k]]]

TrayItemOps(d, items) ==
    [k \in 1..Len(items) |->
        LET it == items[k]
            productId == Some(ProductIdOf(d, "tray", it.productCode))
        IN  [kind |-> "orderItem.upsert",
             where |-> [orderId |-> it.orderId, source |-> "tray",
                        productCode |-> it.productCode],
             update |-> [name |-> it.name, unitPrice |-> it.unitPrice,
                         quantity |-> it.quantity, totalPrice |-> it.totalPrice,
                         productId |-> productId],
             create |-> Overlay(it, [productId |-> productId])]]

\* an update of the order that also writes the total of the items
TrayOrderUpdateOpsWithTotal(items) ==
    LET ids == OrderIdsInOrder(items, {})
    IN  [k \in 1..Len(ids) |->
            LET its == RowsOfOrder(items, ids[k])
            IN  [kind |-> "order.updateMany",
                 where |-> [orderId |-> ids[k], source |-> "tray"],
                 data |-> [quantity |-> SumQuantity(its), productName |-> its[1].name,
                           totalPrice |-> SumTotalPrice(its)]]]

\* one order.updateMany per key of byOrder: the summed quantity and the first name
TrayOrderUpdateOps(items) ==
    LET ids == OrderIdsInOrder(items, {})
    IN  [k \in 1..Len(ids) |->
            LET its == RowsOfOrder(items, ids[k])
            IN  [kind |-> "order.updateMany",
                 where |-> [orderId |-> ids[k], source |-> "tray"],
                 data |-> [quantity |-> SumQuantity(its), productName |-> its[1].name]]]

\* results.filter(r => typeof r.count === 'number').reduce((a, r) => a + r.count, 0)
OrdersUpdated(d, items) ==
    LET ids == OrderIdsInOrder(items, {})
    IN  Cardinality({ o \in d.orders :
            o.source = "tray" /\ \E k \in 1..Len(ids) : o.orderId = ids[k] })

InternalError == [message |-> "Erro interno."]

Respond(op, source, file, fault, code, body) ==
    ingestReq' = [op |-> op, source |-> source, file |-> file, fault |-> fault,
                  code |-> code, body |-> body]

UseFault(fault) ==
    /\ fault # 0 => faults > 0
    /\ faults' = IF fault = 0 THEN faults ELSE faults - 1

\* the shopee branch of POST /api/upload on store d: the store it leaves and its answer
ShopeeUpload(d, file, fault) ==
    LET rows == ShopeeRows(file)
        ens == EnsureAll(d, "shopee", rows, {}, fault)
        ops == ShopeeOrderOps(rows) \o ItemUpsertOps(ens.db, "shopee", rows)
    IN  IF ens.failed \/ fault = TxFault
          THEN [db |-> ens.db, code |-> 500, body |-> InternalError]
          ELSE [db |-> Transaction(ens.db, ops), code |-> 200,
                body |-> [message |-> "Processado com sucesso.", count |-> Len(ops)]]

TiktokUpload(d, file, fault) ==
    LET rows == TiktokRows(file)
        ens == EnsureAll(d, "tiktok", rows, {}, fault)
        ops == TiktokOrderOps(TiktokFiles[file], rows) \o ItemUpsertOps(ens.db, "tiktok", rows)
    IN  IF ens.failed \/ fault = TxFault
          THEN [db |-> ens.db, code |-> 500, body |-> InternalError]
          ELSE [db |-> Transaction(ens.db, ops), code |-> 200,
                body |-> [message |-> "Processado com sucesso.", count |-> Len(ops)]]

TrayUpload(d, file, fault) ==
    LET ops == TrayOrderOps(TraySales(file))
    IN  IF fault = TxFault
          THEN [db |-> d, code |-> 500, body |-> InternalError]
          ELSE [db |-> Transaction(d, ops), code |-> 200,
                body |-> [message |-> "Processado com sucesso.", count |-> Len(ops)]]

\* POST /api/upload-items on store d
ItemsUpload(d, file, fault) ==
    LET items == TrayItems(file)
        ens == EnsureAll(d, "tray", items, {}, fault)
        ops == TrayItemOps(ens.db, items) \o TrayOrderUpdateOps(items)
    IN  IF ens.failed \/ fault = TxFault
          THEN [db |-> ens.db, code |-> 500, body |-> InternalError]
          ELSE [db |-> Transaction(ens.db, ops), code |-> 200,
                body |-> [message |-> "Itens processados com sucesso.",
                          items |-> Len(items),
                          ordersUpdated |-> OrdersUpdated(ens.db, items)]]

UploadShopee(file, fault) ==
    LET r == ShopeeUpload(db, file, fault)
    IN  /\ UseFault(fault)
        /\ db' = r.db
        /\ Respond("upload", "shopee", file, fault, r.code, r.body)

UploadTiktok(file, fault) ==
    LET r == TiktokUpload(db, file, fault)
    IN  /\ UseFault(fault)
        /\ db' = r.db
        /\ Respond("upload", "tiktok", file, fault, r.code, r.body)

UploadTray(file, fault) ==
    LET r == TrayUpload(db, file, fault)
    IN  /\ UseFault(fault)
        /\ db' = r.db
        /\ Respond("upload", "tray", file, fault, r.code, r.body)

UploadItems(file, fault) ==
    LET r == ItemsUpload(db, file, fault)
    IN  /\ UseFault(fault)
        /\ db' = r.db
        /\ Respond("upload-items", "tray", file, fault, r.code, r.body)

\* DELETE /api/orders?source=...
DeleteOrders(source) ==
    /\ IF source = ""
         THEN /\ db' = db
              /\ Respond("delete-orders", source, "", 0, 400, [message |-> "Informe ?source=..."])
         ELSE /\ db' = [db EXCEPT !.orders = { o \in @ : o.source # source }]
              /\ Respond("delete-orders", source, "", 0, 200,
                         [message |-> "Removido com sucesso.",
                          deleted |-> Cardinality({ o \in db.orders : o.source = source })])
    /\ UNCHANGED faults

\* DELETE /api/order-items?source=...
DeleteOrderItems(source) ==
    /\ IF source = ""
         THEN /\ db' = db
              /\ Respond("delete-items", source, "", 0, 400, [message |-> "Informe ?source=..."])
         ELSE /\ db' = [db EXCEPT !.items = { i \in @ : i.source # source }]
              /\ Respond("delete-items", source, "", 0, 200,
                         [message |-> "Itens removidos com sucesso.",
                          deleted |-> Cardinality({ i \in db.items : i.source = source })])
    /\ UNCHANGED faults

\* no date cell read yet
NoParse == [cell |-> NoDate, done |-> FALSE, result |-> None]

\* no ingestion request in flight, none committed
NoRace == [running |-> {}, committed |-> <<>>, overlapped |-> FALSE]

NoCatReq == [op |-> "none", id |-> 0, code |-> 0, found |-> FALSE, at |-> 0]

StoreInit ==
    /\ db = EmptyDb
    /\ ingestReq = [op |-> "none", source |-> "", file |-> "", fault |-> 0,
                    code |-> 0, body |-> [message |-> ""]]
    /\ steps = 0
    /\ faults = MaxFaults
    /\ catReq = NoCatReq
    /\ race = NoRace
    /\ parse = NoParse

IngestStep ==
    \/ \E file \in DOMAIN ShopeeFiles : \E fault \in FaultsOf(ShopeeRows(file)) :
          UploadShopee(file, fault)
    \/ \E file \in DOMAIN TiktokFiles : \E fault \in FaultsOf(TiktokRows(file)) :
          UploadTiktok(file, fault)
    \/ \E file \in DOMAIN TrayFiles : \E fault \in {TxFault, 0} : UploadTray(file, fault)
    \/ \E file \in DOMAIN TrayItemFiles : \E fault \in FaultsOf(TrayItems(file)) :
          UploadItems(file, fault)
    \/ \E source \in Channels \cup {""} : DeleteOrders(source)
    \/ \E source \in Channels \cup {""} : DeleteOrderItems(source)

IngestNext ==
    /\ steps < MaxSteps
    /\ steps' = steps + 1
    /\ IngestStep
    /\ UNCHANGED <<billVars, stockVars, reportVars, catReq, race, parse>>

(***************************************************************************)
(* Claims about the ingestions                                             *)
(***************************************************************************)
Uploads == {"upload", "upload-items"}

\* the rows of the file of the last request, as they are in the file
RawRows(req) ==
    CASE req.op = "upload" /\ req.source = "shopee" -> ShopeeFiles[req.file]
      [] req.op = "upload" /\ req.source = "tiktok" -> TiktokFiles[req.file]
      [] req.op = "upload" /\ req.source = "tray" -> TrayFiles[req.file]
      [] req.op = "upload-items" -> TrayItemFiles[req.file]
      [] OTHER -> <<>>

SameStore(d1, d2) ==
    d1.orders = d2.orders /\ d1.items = d2.items /\ d1.products = d2.products

\* C3: ingestion is idempotent: for every channel and for the tray items export,
\* ingesting the same file a second time right after a first successful ingestion
\* leaves the same Order, OrderItem and Product rows with the same field values.
C3_IngestionIdempotent ==
    [][(/\ ingestReq.op \in Uploads /\ ingestReq.code = 200
        /\ steps' = steps + 1
        /\ ingestReq'.op = ingestReq.op /\ ingestReq'.source = ingestReq.source
        /\ ingestReq'.file = ingestReq.file /\ ingestReq'.code = 200)
       => SameStore(db, db')]_vars

\* C4: a batch ingestion is all-or-nothing: a request in which a write fails leaves
\* every Order, OrderItem and Product row as it was before the request, the Product
\* rows the batch would have created or renamed included.
C4_BatchAllOrNothing ==
    [][(steps' = steps + 1 /\ ingestReq'.op \in Uploads /\ ingestReq'.code = 500)
       => SameStore(db, db')]_vars

\* a row the normalizers must keep: it has an order id and a date that parses
RowIsValid(row) == row.orderId # "" /\ row.date.kind = "serial"

ValidRowsOf(raw, orderId) == SelectSeq(raw, LAMBDA row : RowIsValid(row) /\ row.orderId = orderId)

RECURSIVE SumQty(_)
SumQty(raw) == IF raw = <<>> THEN 0 ELSE Head(raw).qty + SumQty(Tail(raw))

\* C5: a row with a missing order id or a missing or unparseable order date is dropped
\* and never aborts the batch: an order upload in which no database call fails
\* succeeds, the order (and, for shopee and tiktok, the item) of every valid row of
\* the file is stored, dated by a valid row, and the dropped rows add nothing to it.
C5_BadRowsDroppedOthersPersisted ==
    (ingestReq.op = "upload" /\ ingestReq.fault = 0) =>
        LET raw == RawRows(ingestReq)
            src == ingestReq.source
        IN  /\ ingestReq.code = 200
            /\ \A o \in db.orders : o.orderId # ""
            /\ \A i \in db.items : i.orderId # ""
            /\ \A k \in 1..Len(raw) : RowIsValid(raw[k]) =>
                  LET valid == ValidRowsOf(raw, raw[k].orderId)
                  IN  /\ \E o \in db.orders :
                            /\ o.orderId = raw[k].orderId /\ o.source = src
                            /\ \E j \in 1..Len(valid) : o.orderDate = valid[j].date.v - ExcelEpoch
                            /\ src # "tray" => o.quantity = SumQty(valid)
                      /\ src # "tray" =>
                            \E i \in db.items :
                                /\ i.orderId = raw[k].orderId /\ i.source = src
                                /\ i.productCode = raw[k].skuId

\* an order upload succeeded on a file that holds a row without order id, a row
\* without a readable date and a valid row
C5_Witness ==
    /\ ingestReq.op = "upload" /\ ingestReq.fault = 0 /\ ingestReq.code = 200
    /\ LET raw == RawRows(ingestReq)
       IN  /\ \E k \in 1..Len(raw) : raw[k].orderId = ""
           /\ \E k \in 1..Len(raw) : raw[k].orderId # "" /\ raw[k].date.kind # "serial"
           /\ \E k \in 1..Len(raw) : RowIsValid(raw[k])
    /\ db.orders # {}

\* C6: the result of an ingestion reports both counts: accepted is the number of rows
\* of the file that were normalized and persisted, rejected the number of rows that
\* were skipped, and accepted + rejected is the number of rows in the file.
C6_ReportsAcceptedAndRejected ==
    (ingestReq.op = "upload" /\ ingestReq.code = 200) =>
        LET raw == RawRows(ingestReq)
            body == ingestReq.body
            nValid == Cardinality({ k \in 1..Len(raw) : RowIsValid(raw[k]) })
        IN  /\ "count" \in DOMAIN body /\ body.count = nValid
            /\ "rejected" \in DOMAIN body /\ body.count + body.rejected = Len(raw)

\* C7: in every state reached by ingestions, items ingestions and purges there is at
\* most one Order per (orderId, channel) and at most one OrderItem per (orderId,
\* channel, productCode).
C7_NaturalKeysUnique ==
    /\ \A o1, o2 \in db.orders :
          (o1.orderId = o2.orderId /\ o1.source = o2.source) => o1 = o2
    /\ \A i1, i2 \in db.items :
          (i1.orderId = i2.orderId /\ i1.source = i2.source
             /\ i1.productCode = i2.productCode) => i1 = i2

\* a file was ingested again over its own rows, after a purge, and the store holds
\* several items of one order
C7_Witness ==
    /\ steps = 3 /\ ingestReq.op \in Uploads /\ ingestReq.code = 200
    /\ db.nOrder > Cardinality(db.orders) + 1
    /\ \E i1, i2 \in db.items :
          i1.orderId = i2.orderId /\ i1.source = i2.source /\ i1.productCode # i2.productCode

\* C8: the tray items ingestion creates no Order and leaves totalPrice, status,
\* orderDate, freight and paymentType of every Order unchanged; it changes only the
\* quantity and the product name, and only of tray orders.
C8_ItemsIngestionKeepsOrderTotals ==
    [][(steps' = steps + 1 /\ ingestReq'.op = "upload-items") =>
          /\ \A n \in db'.orders : \E o \in db.orders :
                /\ n.id = o.id /\ n.orderId = o.orderId /\ n.source = o.source
                /\ n.totalPrice = o.totalPrice /\ n.status = o.status
                /\ n.orderDate = o.orderDate /\ n.freight = o.freight
                /\ n.paymentType = o.paymentType
                /\ n.commissionFee = o.commissionFee /\ n.serviceFee = o.serviceFee
                /\ o.source # "tray" => n = o
          /\ Cardinality(db'.orders) = Cardinality(db.orders)]_vars

\* an items ingestion has set the quantity and the name of a stored tray order
C8_Witness ==
    /\ ingestReq.op = "upload-items" /\ ingestReq.code = 200
    /\ ingestReq.body.ordersUpdated > 0
    /\ \E o \in db.orders :
          o.source = "tray" /\ o.quantity > 1 /\ o.productName # <<"Pedido", "Tray">>
             /\ o.totalPrice > 0

(***************************************************************************)
(* Inventory: start date, opening quantities, product groups               *)
(***************************************************************************)
EmptyInv == [configs |-> {}, productStock |-> {}, groups |-> {}, groupItems |-> {},
             groupStock |-> {}, nConfig |-> 1, nGroup |-> 1, nGroupItem |-> 1]

\* the body of a stock request as sent: '' , a text that is no date, or yyyy-mm-dd
\* (new Date('yyyy-mm-dd') is midnight UTC of that day; dates are kept in days)
NoStartDate == [kind |-> "empty", day |-> 0]
JunkStartDate == [kind |-> "text", day |-> 0]
StartDay(day) == [kind |-> "ymd", day |-> day]

\* findFirst({ orderBy: { id: 'desc' } })
LatestConfig(v) ==
    IF v.configs = {} THEN None
    ELSE Some(CHOOSE c \in v.configs : \A e \in v.configs : e.id <= c.id)

StockResp(op, code, items) == stockReq' = [op |-> op, code |-> code, items |-> items]

\* POST /api/inventory-config
SetConfig(dateStr) ==
    /\ IF dateStr.kind # "ymd"
         THEN /\ inv' = inv
              /\ StockResp("set-config", 400, <<>>)
         ELSE /\ inv' = IF IsSome(LatestConfig(inv))
                          THEN [inv EXCEPT !.configs =
                                  { IF c.id = Val(LatestConfig(inv)).id
                                      THEN [c EXCEPT !.stockStartDate = dateStr.day]
                                      ELSE c : c \in @ }]
                          ELSE [inv EXCEPT !.configs =
                                  @ \cup {[id |-> inv.nConfig, stockStartDate |-> dateStr.day]},
                                           !.nConfig = @ + 1]
              /\ StockResp("set-config", 200, <<>>)
    /\ UNCHANGED <<billVars, storeVars, reportVars>>

\* PUT /api/product-stock: upsert of the opening quantity by productId
PutProductStock(pid, qty) ==
    /\ IF pid <= 0
         THEN /\ inv' = inv
              /\ StockResp("put-product-stock", 400, <<>>)
         ELSE /\ inv' = [inv EXCEPT !.productStock =
                           { r \in @ : r.productId # pid }
                              \cup {[productId |-> pid, quantity |-> qty]}]
              /\ StockResp("put-product-stock", 200, <<>>)
    /\ UNCHANGED <<billVars, storeVars, reportVars>>

\* PUT /api/product-group-stock: upsert of the opening quantity by productGroupId
PutGroupStock(gid, qty) ==
    /\ IF gid <= 0
         THEN /\ inv' = inv
              /\ StockResp("put-group-stock", 400, <<>>)
         ELSE /\ inv' = [inv EXCEPT !.groupStock =
                           { r \in @ : r.productGroupId # gid }
                              \cup {[productGroupId |-> gid, quantity |-> qty]}]
              /\ StockResp("put-group-stock", 200, <<>>)
    /\ UNCHANGED <<billVars, storeVars, reportVars>>

RECURSIVE CreateGroupItems(_, _, _)
\* for (const pid of ids) await productGroupItem.create(...): each create is committed
\* on its own; a product that is already in a group makes the create throw P2002
CreateGroupItems(v, gid, ids) ==
    IF ids = <<>> THEN [inv |-> v, failed |-> FALSE]
    ELSE IF \E gi \in v.groupItems : gi.productId = Head(ids)
      THEN [inv |-> v, failed |-> TRUE]
    ELSE CreateGroupItems(
            [v EXCEPT !.groupItems = @ \cup {[id |-> v.nGroupItem, productGroupId |-> gid,
                                              productId |-> Head(ids)]},
                      !.nGroupItem = @ + 1],
            gid, Tail(ids))

\* the response of a group route, with the request it answers
GroupResp(op, req, code, message) ==
    stockReq' = [op |-> op, code |-> code, items |-> <<>>, req |-> req,
                 message |-> message,
                 found |-> \E g \in inv.groups : g.id = req.gid]

\* 'Um dos produtos ja pertence a outro grupo.'
AlreadyGrouped == "already-grouped"

\* POST /api/product-groups
CreateGroup(name, ids) ==
    LET req == [gid |-> inv.nGroup, name |-> name, ids |-> ids]
    IN  /\ IF name = "" \/ Len(ids) < 2
             THEN /\ inv' = inv
                  /\ GroupResp("create-group", req, 400, "invalid")
             ELSE LET withGroup == [inv EXCEPT !.groups = @ \cup {[id |-> inv.nGroup, name |-> <<name>>]},
                                               !.nGroup = @ + 1]
                      r == CreateGroupItems(withGroup, inv.nGroup, ids)
                  IN  /\ inv' = r.inv
                      /\ IF r.failed
                            THEN GroupResp("create-group", req, 400, AlreadyGrouped)
                            ELSE GroupResp("create-group", req, 201, "")
        /\ UNCHANGED <<billVars, storeVars, reportVars>>

\* PATCH /api/product-groups/:id; a list of fewer than 2 ids is ignored, the members
\* are replaced before the name is written, and nothing is undone on a failure
UpdateGroup(gid, nameOpt, idsOpt) ==
    LET req == [gid |-> gid, name |-> nameOpt, ids |-> idsOpt]
        exists == \E g \in inv.groups : g.id = gid
        replace == IsSome(idsOpt) /\ Len(Val(idsOpt)) >= 2
        cleared == [inv EXCEPT !.groupItems = { gi \in @ : gi.productGroupId # gid }]
        r == IF replace THEN CreateGroupItems(cleared, gid, Val(idsOpt))
             ELSE [inv |-> inv, failed |-> FALSE]
        rename == IsSome(nameOpt) /\ Val(nameOpt) # ""
    IN  /\ IF gid <= 0
             THEN /\ inv' = inv
                  /\ GroupResp("update-group", req, 400, "invalid")
             ELSE IF replace /\ ~exists
             THEN \* the first create violates the reference to the group
                  /\ inv' = inv
                  /\ GroupResp("update-group", req, 500, "error")
             ELSE IF r.failed
             THEN /\ inv' = r.inv
                  /\ GroupResp("update-group", req, 400, AlreadyGrouped)
             ELSE IF ~rename
             THEN /\ inv' = r.inv
                  /\ GroupResp("update-group", req, 200, "")
             ELSE IF ~exists
             THEN /\ inv' = r.inv
                  /\ GroupResp("update-group", req, 500, "error")
             ELSE /\ inv' = [r.inv EXCEPT !.groups =
                                { IF g.id = gid THEN [g EXCEPT !.name = <<Val(nameOpt)>>]
                                  ELSE g : g \in @ }]
                  /\ GroupResp("update-group", req, 200, "")
        /\ UNCHANGED <<billVars, storeVars, reportVars>>

\* the rows that go with a deleted group
GroupCascade(v, gid) ==
    [v EXCEPT !.groupItems = { gi \in @ : gi.productGroupId # gid },
              !.groupStock = { r \in @ : r.productGroupId # gid }]

\* DELETE /api/product-groups/:id
DeleteGroup(gid) ==
    LET req == [gid |-> gid]
    IN  /\ IF gid <= 0
             THEN /\ inv' = inv
                  /\ GroupResp("delete-group", req, 400, "invalid")
             ELSE IF \E g \in inv.groups : g.id = gid
             THEN /\ inv' = [GroupCascade(inv, gid) EXCEPT
                                !.groups = { g \in @ : g.id # gid }]
                  /\ GroupResp("delete-group", req, 204, "")
             ELSE /\ inv' = inv
                  /\ GroupResp("delete-group", req, 500, "error")
        /\ UNCHANGED <<billVars, storeVars, reportVars>>

Cancelado == <<"c", "a", "n", "c", "e", "l", "a", "d", "o">>
NaoPagoTilde == <<"n", "a~", "o", " ", "p", "a", "g", "o">>
NaoPago == <<"n", "a", "o", " ", "p", "a", "g", "o">>

\* an order filter that only knows cancellations
isOrderValidForStockCancelOnly(o) == ~Includes(toLowerCase(o.status), Cancelado)

isOrderValidForStock(o) ==
    LET st == toLowerCase(o.status)
    IN  IF Includes(st, Cancelado) THEN FALSE
        ELSE IF Includes(st, NaoPagoTilde) \/ Includes(st, NaoPago) THEN FALSE
        ELSE TRUE

\* prisma.order.findMany({ where: { orderDate: { gte: stockStartDate } }, include: { items } })
OrdersSince(d, v) ==
    IF IsSome(LatestConfig(v))
      THEN { o \in d.orders : o.orderDate >= Val(LatestConfig(v)).stockStartDate }
      ELSE {}

\* include: { items: true }: the items of the order
ItemsOfOrder(d, o) == { i \in d.items : i.orderId = o.orderId /\ i.source = o.source }

RECURSIVE SumItemQuantity(_)
SumItemQuantity(S) ==
    IF S = {} THEN 0
    ELSE LET i == CHOOSE x \in S : TRUE
         IN  i.quantity + SumItemQuantity(S \ {i})

\* soldByProduct.get(pid) || 0
SoldByProduct(d, v, pid) ==
    SumItemQuantity({ i \in d.items :
        /\ i.productId = Some(pid)
        /\ \E o \in OrdersSince(d, v) : isOrderValidForStock(o) /\ i \in ItemsOfOrder(d, o) })

RECURSIVE SumSold(_, _, _)
\* productIds.reduce((sum, pid) => sum + (soldByProduct.get(pid) || 0), 0)
SumSold(d, v, pids) ==
    IF pids = {} THEN 0
    ELSE LET p == CHOOSE x \in pids : TRUE
         IN  SoldByProduct(d, v, p) + SumSold(d, v, pids \ {p})

\* a current stock that is not floored at zero
CurrentOfSigned(opening, sold) == opening - sold

\* Math.max(0, opening - sold)
CurrentOf(opening, sold) == Max(0, opening - sold)

RECURSIVE SortedById(_, _)
\* the rows of a table in ascending order of a key (orderBy: { ...: 'asc' })
SortedById(S, key) ==
    IF S = {} THEN <<>>
    ELSE LET r == CHOOSE x \in S : \A y \in S : x[key] <= y[key]
         IN  <<r>> \o SortedById(S \ {r}, key)

GroupMembers(v, gid) == { gi.productId : gi \in { x \in v.groupItems : x.productGroupId = gid } }

GroupName(v, gid) ==
    IF \E g \in v.groups : g.id = gid
      THEN (CHOOSE g \in v.groups : g.id = gid).name
      ELSE <<"Grupo">>

ProductName(d, pid) ==
    IF \E p \in d.products : p.id = pid
      THEN (CHOOSE p \in d.products : p.id = pid).name
      ELSE <<>>

GroupEntry(d, v, gs) ==
    LET sold == SumSold(d, v, GroupMembers(v, gs.productGroupId))
    IN  [type |-> "group", productGroupId |-> Some(gs.productGroupId), productId |-> None,
         name |-> GroupName(v, gs.productGroupId), opening |-> gs.quantity,
         sold |-> sold, current |-> CurrentOf(gs.quantity, sold)]

ProductEntry(d, v, r) ==
    LET sold == SoldByProduct(d, v, r.productId)
    IN  [type |-> "product", productGroupId |-> None, productId |-> Some(r.productId),
         name |-> ProductName(d, r.productId), opening |-> r.quantity,
         sold |-> sold, current |-> CurrentOf(r.quantity, sold)]

\* a ledger that also lists the products that are members of a group
LedgerEntriesWithMembers(d, v) ==
    LET gs == SortedById(v.groupStock, "productGroupId")
        ps == SortedById(v.productStock, "productId")
    IN  [k \in 1..Len(gs) |-> GroupEntry(d, v, gs[k])]
          \o [k \in 1..Len(ps) |-> ProductEntry(d, v, ps[k])]

\* the entries before the sort: the groups with an opening quantity, then the
\* products with an opening quantity that are in no group
LedgerEntries(d, v) ==
    LET gs == SortedById(v.groupStock, "productGroupId")
        ps == SelectSeq(SortedById(v.productStock, "productId"),
                        LAMBDA r : ~\E gi \in v.groupItems : gi.productId = r.productId)
    IN  [k \in 1..Len(gs) |-> GroupEntry(d, v, gs[k])]
          \o [k \in 1..Len(ps) |-> ProductEntry(d, v, ps[k])]

\* the names of the model in the order localeCompare gives them
NamesInOrder == << <<>>, <<"Cup">>, <<"Cup XL">>, <<"Grupo">>, <<"Kit">>, <<"Mug">>, <<"Mug XL">> >>
NameRank(name) == CHOOSE k \in 1..Len(NamesInOrder) : NamesInOrder[k] = name

RECURSIVE InsertByName(_, _)
InsertByName(sorted, e) ==
    IF sorted = <<>> THEN <<e>>
    ELSE IF NameRank(e.name) < NameRank(Head(sorted).name) THEN <<e>> \o sorted
    ELSE <<Head(sorted)>> \o InsertByName(Tail(sorted), e)

RECURSIVE SortByName(_)
\* result.sort((a, b) => (a.name || '').localeCompare(b.name || '')), a stable sort
SortByName(es) ==
    IF es = <<>> THEN <<>>
    ELSE InsertByName(SortByName(SubSeq(es, 1, Len(es) - 1)), es[Len(es)])

\* GET /api/stock-current
GetStockCurrent ==
    /\ StockResp("stock-current", 200, SortByName(LedgerEntries(db, inv)))
    /\ UNCHANGED <<billVars, storeVars, reportVars, inv>>

\* GET /api/stock-projection: the details in the order they are pushed; the price
\* and revenue fields of a detail are not part of this model
GetStockProjection ==
    /\ StockResp("stock-projection", 200,
                 LET es == LedgerEntries(db, inv)
                 IN  [k \in 1..Len(es) |->
                        [type |-> es[k].type, productGroupId |-> es[k].productGroupId,
                         productId |-> es[k].productId, name |-> es[k].name,
                         current |-> es[k].current]])
    /\ UNCHANGED <<billVars, storeVars, reportVars, inv>>

(***************************************************************************)
(* Stores the ledger is read on: what a run of successful ingestions       *)
(* leaves behind                                                           *)
(***************************************************************************)
IngestOne(d, req) ==
    CASE req.source = "shopee" -> ShopeeUpload(d, req.file, 0).db
      [] req.source = "tiktok" -> TiktokUpload(d, req.file, 0).db
      [] req.source = "tray" -> TrayUpload(d, req.file, 0).db
      [] req.source = "tray-items" -> ItemsUpload(d, req.file, 0).db

RECURSIVE IngestRun(_, _)
IngestRun(d, run) ==
    IF run = <<>> THEN d ELSE IngestRun(IngestOne(d, Head(run)), Tail(run))

File(source, file) == [source |-> source, file |-> file]

IngestRuns ==
    { <<>>,
      <<File("tray", "t1"), File("tray-items", "i1"), File("tray-items", "i3")>>,
      <<File("shopee", "s2"), File("shopee", "s3")>>,
      <<File("tiktok", "k1"), File("tiktok", "k2")>>,
      <<File("tiktok", "k1"), File("tiktok", "k3")>> }

StartDates == {NoStartDate, JunkStartDate, StartDay(10), StartDay(11)}
StockQtys == {0 - 1, 1, MaxQty}
ProductIdsOf(d) == { p.id : p \in d.products } \cup {0}
GroupIdsOf(v) == { g.id : g \in v.groups } \cup {0}
GroupNames == {"", "Kit"}
MemberLists(d) ==
    UNION { [1..n -> { p.id : p \in d.products }] : n \in 1..2 }

\* no advertising spend and no payment-type fee recorded
EmptyFin == [adSpend |-> {}, fees |-> {}]

FinInit ==
    /\ fin = EmptyFin
    /\ reportReq = [op |-> "none", req |-> <<>>, code |-> 0, body |-> [message |-> ""]]

InvInit ==
    /\ inv = EmptyInv
    /\ stockReq = [op |-> "none", code |-> 0, items |-> <<>>]

StockInit ==
    /\ BillsInit
    /\ \E run \in IngestRuns : db = IngestRun(EmptyDb, run)
    /\ ingestReq = [op |-> "none", source |-> "", file |-> "", fault |-> 0,
                    code |-> 0, body |-> [message |-> ""]]
    /\ steps = 0
    /\ faults = 0
    /\ catReq = NoCatReq
    /\ race = NoRace
    /\ parse = NoParse
    /\ InvInit
    /\ FinInit

StockNext ==
    \/ \E dateStr \in StartDates : SetConfig(dateStr)
    \/ \E pid \in ProductIdsOf(db), qty \in StockQtys : PutProductStock(pid, qty)
    \/ \E gid \in GroupIdsOf(inv), qty \in StockQtys : PutGroupStock(gid, qty)
    \/ /\ inv.nGroup <= MaxGroups
       /\ \E name \in GroupNames : \E ids \in MemberLists(db) : CreateGroup(name, ids)
    \/ GetStockCurrent
    \/ GetStockProjection

\* the store the groups are built on: four products
GroupRuns == { <<File("shopee", "s2"), File("tiktok", "k2")>> }

MaxGroupItems == 5

\* member lists of a request: a product twice, or a product and the next one
MemberPairs(d) ==
    LET ids == { p.id : p \in d.products }
    IN  { ab \in ids \X ids : ab[2] = ab[1] \/ ab[2] = (ab[1] % Cardinality(ids)) + 1 }
            \cup { <<a>> : a \in { x \in ids : x = 1 } }

GroupsInit ==
    /\ BillsInit
    /\ \E run \in GroupRuns : db = IngestRun(EmptyDb, run)
    /\ ingestReq = [op |-> "none", source |-> "", file |-> "", fault |-> 0,
                    code |-> 0, body |-> [message |-> ""]]
    /\ steps = 0
    /\ faults = 0
    /\ catReq = NoCatReq
    /\ race = NoRace
    /\ parse = NoParse
    /\ InvInit
    /\ FinInit

GroupsNext ==
    \/ /\ inv.nGroup <= MaxGroups + 1 /\ inv.nGroupItem <= MaxGroupItems
       /\ \E name \in GroupNames : \E ids \in MemberPairs(db) : CreateGroup(name, ids)
    \/ /\ inv.nGroupItem <= MaxGroupItems
       /\ \E gid \in GroupIdsOf(inv) \cup {inv.nGroup} :
             \E nameOpt \in {None, Some("Set")} :
               \E idsOpt \in {None} \cup { Some(ids) : ids \in MemberPairs(db) } :
                   UpdateGroup(gid, nameOpt, idsOpt)
    \/ \E gid \in GroupIdsOf(inv) \cup {inv.nGroup} : DeleteGroup(gid)

(***************************************************************************)
(* Claims about the inventory ledger                                       *)
(***************************************************************************)
\* a status that contains a cancellation or a non-payment phrase
StatusExcluded(status) ==
    \E phrase \in {Cancelado, NaoPagoTilde, NaoPago} : Includes(toLowerCase(status), phrase)

\* the items of the products pids that belong to an order dated on or after the
\* stock-start date whose status is not excluded
CountedItems(pids) ==
    { i \in db.items :
        /\ \E p \in pids : i.productId = Some(p)
        /\ \E c \in inv.configs, o \in db.orders :
              /\ \A e \in inv.configs : e.id <= c.id
              /\ o.orderId = i.orderId /\ o.source = i.source
              /\ o.orderDate >= c.stockStartDate
              /\ ~StatusExcluded(o.status) }

RECURSIVE QtySum(_)
QtySum(S) ==
    IF S = {} THEN 0
    ELSE LET i == CHOOSE x \in S : TRUE IN i.quantity + QtySum(S \ {i})

\* the products an entry stands for
EntryProducts(e) ==
    IF e.type = "group" THEN GroupMembers(inv, Val(e.productGroupId)) ELSE {Val(e.productId)}

\* the opening quantities recorded for the entity of an entry
EntryOpenings(e) ==
    IF e.type = "group"
      THEN { r.quantity : r \in { x \in inv.groupStock : x.productGroupId = Val(e.productGroupId) } }
      ELSE { r.quantity : r \in { x \in inv.productStock : x.productId = Val(e.productId) } }

\* C9: for every entry of the ledger, current = max(0, opening - sold), where sold is
\* the sum of the quantities of the OrderItems of the product (or of the member
\* products of the group) that belong to orders dated on or after the stock-start
\* date whose status holds neither a cancellation nor a non-payment phrase; other
\* items never reduce current.
C9_LedgerCurrent ==
    stockReq.op = "stock-current" =>
        \A k \in 1..Len(stockReq.items) :
            LET e == stockReq.items[k]
                sold == QtySum(CountedItems(EntryProducts(e)))
            IN  /\ EntryOpenings(e) = {e.opening}
                /\ e.sold = sold
                /\ e.current = IF e.opening - sold > 0 THEN e.opening - sold ELSE 0

\* the ledger was read with a product entry whose stock was reduced by a counted sale
\* while the store also holds an item of that product in an order that does not count,
\* and with a group entry with sales
C9_Witness ==
    /\ stockReq.op = "stock-current"
    /\ \E k \in 1..Len(stockReq.items) :
          LET e == stockReq.items[k]
          IN  /\ e.type = "product" /\ e.sold > 0 /\ e.current > 0
              /\ e.current = e.opening - e.sold
              /\ \E i \in db.items :
                    i.productId = e.productId /\ i \notin CountedItems(EntryProducts(e))

\* C10: every entry returned by the inventory ledger and by the stock projection has
\* current >= 0, whatever the opening quantities and the ingested sales.
C10_CurrentNeverNegative ==
    stockReq.op \in {"stock-current", "stock-projection"} =>
        \A k \in 1..Len(stockReq.items) : stockReq.items[k].current >= 0

\* the projection was read while more units of a product were sold than its opening
\* quantity, and while a group had sold more than its opening quantity
C10_Witness ==
    /\ stockReq.op = "stock-projection"
    /\ \E k \in 1..Len(stockReq.items) :
          LET e == stockReq.items[k]
          IN  /\ e.type = "product" /\ e.current = 0
              /\ \E r \in inv.productStock :
                    /\ Some(r.productId) = e.productId /\ r.quantity > 0
                    /\ QtySum(CountedItems({r.productId})) > r.quantity
    /\ \E k \in 1..Len(stockReq.items) :
          LET e == stockReq.items[k]
          IN  /\ e.type = "group" /\ e.current = 0
              /\ \E r \in inv.groupStock :
                    /\ Some(r.productGroupId) = e.productGroupId
                    /\ QtySum(CountedItems(EntryProducts(e))) > r.quantity

\* the entity an entry of the ledger stands for
EntryKey(e) ==
    IF e.type = "group" THEN <<"group", Val(e.productGroupId)>>
    ELSE <<"product", Val(e.productId)>>

\* the entities the ledger must list
LedgerKeys ==
    { <<"group", r.productGroupId>> : r \in inv.groupStock }
      \cup { <<"product", r.productId>> :
                r \in { x \in inv.productStock :
                          ~\E gi \in inv.groupItems : gi.productId = x.productId } }

\* C11: the ledger holds exactly one entry for each ProductGroup with a recorded
\* opening quantity and exactly one for each Product with a recorded opening quantity
\* that is a member of no group, and no other entry.
C11_LedgerEntriesExact ==
    stockReq.op = "stock-current" =>
        /\ { EntryKey(stockReq.items[k]) : k \in 1..Len(stockReq.items) } = LedgerKeys
        /\ \A j, k \in 1..Len(stockReq.items) :
              EntryKey(stockReq.items[j]) = EntryKey(stockReq.items[k]) => j = k

\* the ledger was read with a group entry and a product entry while a grouped product
\* has an opening quantity of its own
C11_Witness ==
    /\ stockReq.op = "stock-current"
    /\ \E j, k \in 1..Len(stockReq.items) :
          stockReq.items[j].type = "group" /\ stockReq.items[k].type = "product"
    /\ \E r \in inv.productStock : \E gi \in inv.groupItems : gi.productId = r.productId

(***************************************************************************)
(* Claims about the product groups and the missing ids                     *)
(***************************************************************************)
\* the ProductGroup, ProductGroupItem and ProductGroupStock rows without the counters
GroupTables(v) == <<v.groups, v.groupItems, v.groupStock>>

MembersOf(v, gid) == { gi.productId : gi \in { x \in v.groupItems : x.productGroupId = gid } }

\* C15: creating a product group whose member list contains a product that already
\* belongs to another group fails with the 'already grouped' error and leaves the store
\* unchanged: no new ProductGroup row, no new ProductGroupItem row, the existing
\* group's membership untouched.
C15_FailedCreateLeavesStore ==
    [][(/\ stockReq'.op = "create-group"
        /\ stockReq'.req.name # "" /\ Len(stockReq'.req.ids) >= 2
        /\ \E k \in 1..Len(stockReq'.req.ids) :
              \E gi \in inv.groupItems : gi.productId = stockReq'.req.ids[k])
          => /\ stockReq'.code = 400
             /\ stockReq'.message = AlreadyGrouped
             /\ GroupTables(inv') = GroupTables(inv)]_vars

\* C16: in every state reachable by createGroup, updateGroup and deleteGroup requests,
\* successful or failed, every stored ProductGroup has at least 2 member products.
C16_GroupsHaveTwoMembers ==
    \A g \in inv.groups : Cardinality(MembersOf(inv, g.id)) >= 2

GroupNameOf(v, gid) == { g.name : g \in { x \in v.groups : x.id = gid } }

\* C25: an updateGroup request that fails because one of the new members already
\* belongs to another group performs no partial mutation: the updated group keeps the
\* members and the name it had before the request, and the other groups are unchanged.
C25_FailedUpdateLeavesGroups ==
    [][(/\ stockReq'.op = "update-group"
        /\ stockReq'.code = 400 /\ stockReq'.message = AlreadyGrouped
        /\ \E k \in 1..Len(Val(stockReq'.req.ids)) :
              \E gi \in inv.groupItems :
                  /\ gi.productId = Val(stockReq'.req.ids)[k]
                  /\ gi.productGroupId # stockReq'.req.gid)
          => /\ inv'.groups = inv.groups
             /\ \A g \in inv.groups :
                    /\ MembersOf(inv', g.id) = MembersOf(inv, g.id)
                    /\ GroupNameOf(inv', g.id) = GroupNameOf(inv, g.id)]_vars

\* C17: every operation addressed to a bill, product group or product id that does not
\* exist (edit or delete a bill, add, edit or delete a payment of a bill, edit or delete
\* a group, edit a product) answers with an explicit not-found response, never a
\* success and never the generic internal failure (a request that is rejected as
\* malformed, code 400, is not counted).
C17_MissingIdIsNotFound ==
    /\ (/\ billReq.op \in {"editBill", "deleteBill", "createPayment", "updatePayment",
                           "deletePayment"}
        /\ billReq.before = None /\ billReq.code # 400) => billReq.code = 404
    /\ (/\ stockReq.op \in {"update-group", "delete-group"}
        /\ ~stockReq.found /\ stockReq.code # 400) => stockReq.code = 404
    /\ (catReq.op = "put-product" /\ ~catReq.found) => catReq.code = 404

(***************************************************************************)
(* Financial rollups: advertising spend, ROAS dashboard                    *)
(***************************************************************************)
\* `${d.getFullYear()}-${String(d.getMonth() + 1).padStart(2, '0')}` of a date, as the
\* number yyyymm
MonthOf(day) == CivilFromDays(day)[1] * 100 + CivilFromDays(day)[2]

\* a string YYYY-MM is Some(<<yyyy, mm>>), any other string is None; the result is the
\* first day of the month, new Date(yyyy, mm - 1, 1)
monthStartFromYYYYMM(v) ==
    IF IsSome(v) THEN Some(MakeDate(Val(v)[1], Val(v)[2] - 1, 1, 0, 0, 0)) ELSE None

\* new Date(d.getFullYear(), d.getMonth() + 1, 1): the first day of the next month
NextMonthStart(day) == MakeDate(CivilFromDays(day)[1], CivilFromDays(day)[2], 1, 0, 0, 0)

RECURSIVE SumFn(_, _)
\* reduce((s, x) => s + f[x], 0) over the rows S
SumFn(f, S) ==
    IF S = {} THEN 0
    ELSE LET x == CHOOSE y \in S : TRUE
         IN  f[x] + SumFn(f, S \ {x})

\* n / d rounded to the nearest integer, halves away from zero (d > 0)
RoundDiv(n, d) ==
    IF n >= 0 THEN (2 * n + d) \div (2 * d) ELSE 0 - ((2 * (0 - n) + d) \div (2 * d))

\* Number((n / d).toFixed(2)) of an amount of n / d cents: whole cents
ToFixed2(n, d) == RoundDiv(n, d)

\* Number((rev / sp).toFixed(4)) in ten-thousandths
ToFixed4(rev, sp) == RoundDiv(10000 * rev, sp)

FinResp(op, req, code, body) ==
    reportReq' = [op |-> op, req |-> req, code |-> code, body |-> body]

\* POST /api/adspend
PutAdSpend(monthStr, channel, amount) ==
    LET month == monthStartFromYYYYMM(monthStr)
        req == [month |-> monthStr, channel |-> channel, amount |-> amount]
    IN  /\ IF ~IsSome(month) \/ channel = ""
             THEN /\ FinResp("adspend", req, 400, [message |-> "invalid"])
                  /\ UNCHANGED fin
             ELSE LET w == [month |-> Val(month), channel |-> channel]
                      hit == { r \in fin.adSpend : r.month = w.month /\ r.channel = w.channel }
                      row == Overlay(w, [amount |-> amount])
                  IN  /\ fin' = [fin EXCEPT !.adSpend = (@ \ hit) \cup {row}]
                      /\ FinResp("adspend", req, 200, row)
        /\ UNCHANGED <<billVars, storeVars, stockVars>>

\* the orders of the requested range that are neither cancelled nor unpaid
AdsOrders(d, from, to) ==
    { o \in d.orders :
        /\ IsSome(from) => o.orderDate >= Val(from)
        /\ IsSome(to) => o.orderDate < NextMonthStart(Val(to))
        /\ LET status == toLowerCase(o.status)
           IN  /\ ~Includes(status, Cancelado)
               /\ ~(Includes(status, NaoPagoTilde) \/ Includes(status, NaoPago)) }

\* prisma.adSpend.findMany of the requested range
AdsSpendRows(f, from, to) ==
    { r \in f.adSpend :
        /\ IsSome(from) => r.month >= Val(from)
        /\ IsSome(to) => r.month < NextMonthStart(Val(to)) }

RECURSIVE SortedInts(_)
\* [...months].sort()
SortedInts(S) ==
    IF S = {} THEN <<>>
    ELSE LET m == CHOOSE x \in S : \A y \in S : x <= y
         IN  <<m>> \o SortedInts(S \ {m})

\* the channel names in lexicographic order
ChannelsInOrder == <<"meta", "shopee", "tiktok", "tray">>

\* a ROAS that reads a cell without spend as zero return
RoasOfZero(revenue, spend) ==
    IF spend > 0 THEN Some(ToFixed4(revenue, spend)) ELSE Some(0)

\* spend > 0 ? Number((revenue / spend).toFixed(4)) : null
RoasOf(revenue, spend) ==
    IF spend > 0 THEN Some(ToFixed4(revenue, spend)) ELSE None

\* the body of GET /api/ads-dashboard
AdsDashboard(d, f, from, to) ==
    LET orders == AdsOrders(d, from, to)
        spendRows == AdsSpendRows(f, from, to)
        price == [o \in orders |-> o.totalPrice]
        amt == [r \in spendRows |-> r.amount]
        months == { MonthOf(o.orderDate) : o \in orders }
                    \cup { MonthOf(r.month) : r \in spendRows }
        channels == { o.source : o \in orders } \cup { r.channel : r \in spendRows }
        monthsSorted == SortedInts(months)
        channelsSorted == SelectSeq(ChannelsInOrder, LAMBDA ch : ch \in channels)
        RevOf(ym, chs) ==
            SumFn(price, { o \in orders : MonthOf(o.orderDate) = ym /\ o.source \in chs })
        SpendOf(ym, chs) ==
            SumFn(amt, { r \in spendRows : MonthOf(r.month) = ym /\ r.channel \in chs })
        Cell(ym, ch) ==
            LET rev == ToFixed2(RevOf(ym, {ch}), 1)
                sp == ToFixed2(SpendOf(ym, {ch}), 1)
            IN  [channel |-> ch, revenue |-> rev, spend |-> sp, roas |-> RoasOf(rev, sp)]
        Month(ym) ==
            LET revenue == ToFixed2(RevOf(ym, channels), 1)
                spend == ToFixed2(SpendOf(ym, channels), 1)
            IN  [month |-> ym, revenue |-> revenue, spend |-> spend,
                 roas |-> RoasOf(revenue, spend),
                 byChannel |-> [k \in 1..Len(channelsSorted) |-> Cell(ym, channelsSorted[k])]]
        totalRevenue == ToFixed2(SumFn(price, orders), 1)
        totalSpend == ToFixed2(SumFn(amt, spendRows), 1)
    IN  [kpis |-> [revenue |-> totalRevenue, spend |-> totalSpend,
                   roas |-> RoasOf(totalRevenue, totalSpend)],
         channels |-> channelsSorted,
         byMonth |-> [k \in 1..Len(monthsSorted) |-> Month(monthsSorted[k])]]

\* GET /api/ads-dashboard?from=&to=
GetAdsDashboard(fromStr, toStr) ==
    /\ FinResp("ads-dashboard", [from |-> fromStr, to |-> toStr], 200,
               AdsDashboard(db, fin, monthStartFromYYYYMM(fromStr), monthStartFromYYYYMM(toStr)))
    /\ UNCHANGED <<billVars, storeVars, stockVars, fin>>

(***************************************************************************)
(* Financial rollups: product costs, payment-type fees, P&L simulation     *)
(***************************************************************************)
CatResp(op, id, code) ==
    catReq' = [op |-> op, id |-> id, code |-> code,
               found |-> \E p \in db.products : p.id = id, at |-> steps]

\* the costPrice of a request body: left out, null, or a number
CostPatches == {<<"keep">>, <<"set", None>>, <<"set", Some(MaxAmount + 1)>>}

\* PUT /api/products/:id
PutProduct(id, nameOpt, costPatch) ==
    /\ IF \E p \in db.products : p.id = id
         THEN /\ db' = [db EXCEPT !.products =
                          { IF p.id # id THEN p
                            ELSE [p EXCEPT
                                    !.name = IF IsSome(nameOpt) THEN Val(nameOpt) ELSE @,
                                    !.costPrice = IF costPatch[1] = "set"
                                                    THEN costPatch[2] ELSE @] : p \in @ }]
              /\ CatResp("put-product", id, 200)
         ELSE /\ UNCHANGED db
              /\ CatResp("put-product", id, 500)
    /\ UNCHANGED <<billVars, ingestReq, steps, faults, race, parse, stockVars, reportVars>>

\* POST /api/payment-type-fees
PutPaymentTypeFee(monthStr, channel, paymentType, percent) ==
    LET month == monthStartFromYYYYMM(monthStr)
        req == [month |-> monthStr, channel |-> channel, paymentType |-> paymentType,
                percent |-> percent]
    IN  /\ IF ~IsSome(month) \/ paymentType = ""
             THEN /\ FinResp("payment-type-fee", req, 400, [message |-> "invalid"])
                  /\ UNCHANGED fin
             ELSE LET w == [month |-> Val(month), channel |-> channel,
                            paymentType |-> paymentType]
                      hit == { r \in fin.fees : /\ r.month = w.month
                                                /\ r.channel = w.channel
                                                /\ r.paymentType = w.paymentType }
                      row == Overlay(w, [percent |-> percent])
                  IN  /\ fin' = [fin EXCEPT !.fees = (@ \ hit) \cup {row}]
                      /\ FinResp("payment-type-fee", req, 200, row)
        /\ UNCHANGED <<billVars, storeVars, stockVars>>

Ancelado == <<"a", "n", "c", "e", "l", "a", "d", "o">>

\* x || 0 of a nullable number
OrZero(o) == IF IsSome(o) THEN Val(o) ELSE 0

\* prisma.order.findMany({ where: orderWhere }): the orders of the month that do not
\* contain 'ancelado' or 'Não pago' (case-insensitive), of the channel unless 'all'
SimOrders(d, monthStart, channel) ==
    { o \in d.orders :
        /\ o.orderDate >= monthStart /\ o.orderDate < NextMonthStart(monthStart)
        /\ ~Includes(toLowerCase(o.status), Ancelado)
        /\ ~Includes(toLowerCase(o.status), NaoPagoTilde)
        /\ channel # "all" => o.source = channel }

\* feeMap.get(pt) ?? cardPixPercent
FeePercent(f, monthStart, o, cardPixPercent) ==
    LET hit == { r \in f.fees : /\ r.month = monthStart /\ r.channel = "tray"
                                /\ Some(r.paymentType) = o.paymentType }
    IN  IF hit = {} THEN cardPixPercent ELSE (CHOOSE r \in hit : TRUE).percent

\* Number((margin).toFixed(2)) of 100 * n / m percent, in hundredths of a percent
\* (long division keeps the intermediate values small)
ToFixed2Percent(n, m) ==
    LET a == IF n >= 0 THEN n ELSE 0 - n
        r1 == 100 * (a % m)
        v == 10000 * (a \div m) + 100 * (r1 \div m) + RoundDiv(100 * (r1 % m), m)
    IN  IF n >= 0 THEN v ELSE 0 - v

taxPercent == 5

\* a fixed cost that is never allocated: the full amount for every channel
FixedCostFull(fixedCost, channel, totalRevenue, totalRevenueAll) == <<fixedCost, 1>>

\* fixedCostProportional as the fraction <<numerator, denominator>>
FixedCostProportional(fixedCost, channel, totalRevenue, totalRevenueAll) ==
    IF totalRevenueAll > 0 /\ channel # "all"
      THEN <<fixedCost * totalRevenue, totalRevenueAll>>
      ELSE <<fixedCost, 1>>

\* a profit that forgets the tax
ProfitBeforeTax(totalRevenue, adsSpend, fees, cardPixNum, freight, productionCost, fixed) ==
    (totalRevenue - adsSpend - fees - freight - productionCost) * (100 * fixed[2])
        - cardPixNum * fixed[2] - fixed[1] * 100

\* profit as the numerator of a fraction of denominator 100 * fixed[2]; fees is
\* shopeeFees + tiktokFees, cardPix is cardPixNum / 100, tax is totalRevenue * 5 / 100
Profit(totalRevenue, adsSpend, fees, cardPixNum, freight, productionCost, fixed) ==
    (totalRevenue - adsSpend - fees - freight - productionCost) * (100 * fixed[2])
        - cardPixNum * fixed[2] - fixed[1] * 100 - totalRevenue * taxPercent * fixed[2]

\* the body of GET /api/simulation (amounts in cents; the display percentages of the
\* single lines are left out)
Simulation(d, f, monthStart, channel, fixedCost, cardPixPercent) ==
    LET orders == SimOrders(d, monthStart, channel)
        price == [o \in d.orders |-> o.totalPrice]
        mktFees == [o \in d.orders |-> OrZero(o.commissionFee) + OrZero(o.serviceFee)]
        totalRevenue == SumFn(price, orders)
        shopeeFees == IF channel \in {"tray", "tiktok"} THEN 0
                      ELSE SumFn(mktFees, { o \in orders : o.source = "shopee" })
        tiktokFees == IF channel \in {"tray", "shopee"} THEN 0
                      ELSE SumFn(mktFees, { o \in orders : o.source = "tiktok" })
        trayOrders == { o \in orders : o.source = "tray" }
        cardPixNum == IF channel \in {"tray", "all"}
                        THEN SumFn([o \in d.orders |->
                                      o.totalPrice * FeePercent(f, monthStart, o, cardPixPercent)],
                                   trayOrders)
                        ELSE 0
        freight == IF channel \in {"tray", "all"}
                     THEN SumFn([o \in d.orders |-> OrZero(o.freight)], trayOrders)
                     ELSE 0
        items == { i \in d.items : \E o \in orders : i \in ItemsOfOrder(d, o) }
        CostOf(i) == LET ps == { p \in d.products : Some(p.id) = i.productId }
                     IN  IF ps = {} THEN 0 ELSE OrZero((CHOOSE p \in ps : TRUE).costPrice)
        productionCost == SumFn([i \in d.items |-> CostOf(i) * i.quantity], items)
        adsSpend == SumFn([r \in f.adSpend |-> r.amount],
                          { r \in f.adSpend :
                              /\ r.month >= monthStart /\ r.month < NextMonthStart(monthStart)
                              /\ channel # "all" => r.channel = channel })
        totalRevenueAll == IF channel # "all"
                             THEN SumFn(price, SimOrders(d, monthStart, "all"))
                             ELSE totalRevenue
        fixed == FixedCostProportional(fixedCost, channel, totalRevenue, totalRevenueAll)
        profit == Profit(totalRevenue, adsSpend, shopeeFees + tiktokFees, cardPixNum,
                         freight, productionCost, fixed)
    IN  [faturamentoBruto |-> ToFixed2(totalRevenue, 1),
         adsInvestimento |-> ToFixed2(adsSpend, 1),
         taxasShopee |-> ToFixed2(shopeeFees, 1),
         taxasTiktok |-> ToFixed2(tiktokFees, 1),
         taxasCartaoPix |-> ToFixed2(cardPixNum, 100),
         frete |-> ToFixed2(freight, 1),
         custoProducao |-> ToFixed2(productionCost, 1),
         custoFixo |-> ToFixed2(fixed[1], fixed[2]),
         imposto |-> ToFixed2(totalRevenue * taxPercent, 100),
         impostoPercent |-> taxPercent,
         lucroLiquido |-> ToFixed2(profit, 100 * fixed[2]),
         margemLucro |-> IF totalRevenue > 0
                           THEN ToFixed2Percent(profit, 100 * fixed[2] * totalRevenue)
                           ELSE 0]

\* GET /api/simulation?month=&channel=&fixedCost=&cardPixPercent=
GetSimulation(monthStr, channel, fixedCost, cardPixPercent) ==
    LET monthStart == monthStartFromYYYYMM(monthStr)
        req == [month |-> monthStr, channel |-> channel, fixedCost |-> fixedCost,
                cardPixPercent |-> cardPixPercent]
    IN  /\ IF ~IsSome(monthStart)
             THEN FinResp("simulation", req, 400, [message |-> "invalid"])
             ELSE FinResp("simulation", req, 200,
                          Simulation(db, fin, Val(monthStart), channel, fixedCost,
                                     cardPixPercent))
        /\ UNCHANGED <<billVars, storeVars, stockVars, fin>>

\* the ingestions and purges with the first manual edit of a product cost between them
CatalogNext ==
    \/ IngestNext
    \/ /\ \A p \in db.products : p.costPrice = None
       /\ \E id \in ProductIdsOf(db) \ {0} :
             PutProduct(id, None, <<"set", Some(MaxAmount + 1)>>)

\* stores the reports are read from: the runs of ingestions that built them
ReportRuns ==
    { <<>>,
      <<File("shopee", "s2"), File("tray", "t1"), File("tiktok", "k1")>>,
      <<File("shopee", "s2"), File("shopee", "s3"), File("tray", "t2"),
        File("tiktok", "k3")>> }

MonthStrs == {None, Some(<<1970, 1>>), Some(<<1970, 2>>)}
AdChannels == {"", "shopee", "meta"}
AdAmounts == {0, MaxAmount * 10}

ReportInit ==
    /\ BillsInit
    /\ \E run \in ReportRuns : db = IngestRun(EmptyDb, run)
    /\ ingestReq = [op |-> "none", source |-> "", file |-> "", fault |-> 0,
                    code |-> 0, body |-> [message |-> ""]]
    /\ steps = 0
    /\ faults = 0
    /\ catReq = NoCatReq
    /\ race = NoRace
    /\ parse = NoParse
    /\ InvInit
    /\ FinInit

AdsNext ==
    \/ \E monthStr \in MonthStrs, channel \in AdChannels, amount \in AdAmounts :
          PutAdSpend(monthStr, channel, amount)
    \/ \E fromStr \in MonthStrs, toStr \in MonthStrs : GetAdsDashboard(fromStr, toStr)

SimChannels == {"all", "shopee", "tiktok", "tray"}
FeePercents == {MaxAmount * 5}
FixedCosts == {MaxAmount * 50}
CardPixPercents == {MaxAmount * 2}

SimNext ==
    \/ \E amount \in AdAmounts : PutAdSpend(Some(<<1970, 1>>), "shopee", amount)
    \/ \E monthStr \in {None, Some(<<1970, 1>>)}, paymentType \in {"", "pix"}, percent \in FeePercents :
          PutPaymentTypeFee(monthStr, "tray", paymentType, percent)
    \/ \E id \in ProductIdsOf(db), costPatch \in CostPatches :
          PutProduct(id, None, costPatch)
    \/ \E monthStr \in MonthStrs, channel \in SimChannels :
          \E fixedCost \in FixedCosts, cardPixPercent \in CardPixPercents :
              GetSimulation(monthStr, channel, fixedCost, cardPixPercent)

(***************************************************************************)
(* Claims about the financial rollups                                      *)
(***************************************************************************)
\* every cell of a dashboard: the KPI, the month totals, the month+channel cells
AdsCells(body) ==
    {[revenue |-> body.kpis.revenue, spend |-> body.kpis.spend, roas |-> body.kpis.roas]}
      \cup { [revenue |-> body.byMonth[k].revenue, spend |-> body.byMonth[k].spend,
              roas |-> body.byMonth[k].roas] : k \in 1..Len(body.byMonth) }
      \cup UNION { { [revenue |-> body.byMonth[k].byChannel[j].revenue,
                      spend |-> body.byMonth[k].byChannel[j].spend,
                      roas |-> body.byMonth[k].byChannel[j].roas] :
                        j \in 1..Len(body.byMonth[k].byChannel) } :
                   k \in 1..Len(body.byMonth) }

Abs(n) == IF n >= 0 THEN n ELSE 0 - n

\* C12: in the ads dashboard the ROAS of a cell is null whenever the spend of the cell
\* is 0, at every level (month+channel cell, month total, overall KPI) and whatever the
\* revenue, and it is revenue / spend (to four decimals) whenever the spend is above 0.
C12_RoasNullWithoutSpend ==
    reportReq.op = "ads-dashboard" =>
        \A c \in AdsCells(reportReq.body) :
            /\ c.spend = 0 => c.roas = None
            /\ c.spend > 0 =>
                  /\ IsSome(c.roas)
                  /\ 2 * Abs(Val(c.roas) * c.spend - 10000 * c.revenue) <= c.spend

\* a dashboard with revenue in a month+channel cell without spend, a month total
\* without spend, and spend in the overall KPI
C12_Witness ==
    /\ reportReq.op = "ads-dashboard"
    /\ reportReq.body.kpis.spend > 0 /\ reportReq.body.kpis.revenue > 0
    /\ \E k \in 1..Len(reportReq.body.byMonth) :
          /\ reportReq.body.byMonth[k].spend = 0
          /\ reportReq.body.byMonth[k].revenue > 0
          /\ \E j \in 1..Len(reportReq.body.byMonth[k].byChannel) :
                /\ reportReq.body.byMonth[k].byChannel[j].spend = 0
                /\ reportReq.body.byMonth[k].byChannel[j].revenue > 0
    /\ \E k \in 1..Len(reportReq.body.byMonth) :
          \E j \in 1..Len(reportReq.body.byMonth[k].byChannel) :
              reportReq.body.byMonth[k].byChannel[j].spend > 0

\* the revenue of the orders of the channels chs in the month starting at monthStart
\* that the simulation counts
ValidRevenue(monthStart, chs) ==
    LET valid == { o \in db.orders :
                     /\ MonthOf(o.orderDate) = MonthOf(monthStart)
                     /\ o.source \in chs
                     /\ ~Includes(toLowerCase(o.status), Ancelado)
                     /\ ~Includes(toLowerCase(o.status), NaoPagoTilde) }
    IN  SumFn([o \in db.orders |-> o.totalPrice], valid)

SimulationDone == reportReq.op = "simulation" /\ reportReq.code = 200

\* C13: the fixed-cost deduction of the simulation is the full fixedCost when the
\* channel is 'all', and for a single channel it is fixedCost x (valid revenue of the
\* channel in the month / valid revenue of all channels in the month), to the cent.
C13_FixedCostAllocation ==
    SimulationDone =>
        LET r == reportReq.req
            monthStart == Val(monthStartFromYYYYMM(r.month))
            own == ValidRevenue(monthStart, {r.channel})
            all == ValidRevenue(monthStart, Channels)
        IN  IF r.channel = "all"
              THEN reportReq.body.custoFixo = r.fixedCost
              ELSE 2 * Abs(reportReq.body.custoFixo * all - r.fixedCost * own) <= all

\* a single-channel simulation of a month in which the channel made part of the revenue
C13_Witness ==
    /\ SimulationDone
    /\ reportReq.req.channel # "all"
    /\ reportReq.body.custoFixo > 0
    /\ reportReq.body.custoFixo < reportReq.req.fixedCost

\* the fixed cost the simulation of the answered request deducts for the channel ch,
\* read from the store the request was answered from
CustoFixoOf(ch) ==
    LET r == reportReq.req
    IN  Simulation(db, fin, Val(monthStartFromYYYYMM(r.month)), ch, r.fixedCost,
                   r.cardPixPercent).custoFixo

\* every valid order of the month of the answered request belongs to a channel
EveryValidOrderInAChannel ==
    \A o \in SimOrders(db, Val(monthStartFromYYYYMM(reportReq.req.month)), "all") :
        o.source \in Channels

\* C30: the fixed cost is distributed fully and only once: for any month in which every
\* valid order belongs to one of the three channels, the fixed-cost deductions of the
\* simulations of shopee, tiktok and tray sum to the fixedCost that the simulation of
\* all channels deducts.
C30_FixedCostDistributedOnce ==
    (SimulationDone /\ reportReq.req.channel = "all" /\ EveryValidOrderInAChannel) =>
        CustoFixoOf("shopee") + CustoFixoOf("tiktok") + CustoFixoOf("tray")
            = reportReq.body.custoFixo

\* the deductions the simulation lists, with or without the advertising spend
Deductions(b, withAds) ==
    b.taxasShopee + b.taxasTiktok + b.taxasCartaoPix + b.frete + b.custoProducao
      + b.custoFixo + b.imposto + (IF withAds THEN b.adsInvestimento ELSE 0)

\* the profit is the revenue minus the deductions (each line is rounded to the cent,
\* four of them are fractions) and the margin is the profit over the revenue, in
\* hundredths of a percent
ProfitIsRevenueMinus(b, withAds) ==
    /\ Abs(b.lucroLiquido - (b.faturamentoBruto - Deductions(b, withAds))) <= 2
    /\ b.faturamentoBruto > 0 =>
          2 * Abs(b.margemLucro * b.faturamentoBruto - 10000 * b.lucroLiquido)
              <= b.faturamentoBruto + 10000

\* C14 as stated: the net profit of the simulation is the gross revenue minus exactly
\* the marketplace fees, the payment-processing fee, the freight, the production cost,
\* the allocated fixed cost and the flat tax, and the margin is profit / revenue.
C14_ProfitMinusListedDeductions ==
    SimulationDone => ProfitIsRevenueMinus(reportReq.body, FALSE)

\* C14 amended: the net profit of the simulation is the gross revenue minus the
\* advertising spend of the month and channel, the marketplace fees, the
\* payment-processing fee, the freight, the production cost, the allocated fixed cost
\* and the flat tax; the margin is profit / revenue as a percentage when the revenue
\* is above 0, and 0 otherwise.
C14_ProfitMinusAdsAndListedDeductions ==
    SimulationDone =>
        /\ ProfitIsRevenueMinus(reportReq.body, TRUE)
        /\ reportReq.body.faturamentoBruto <= 0 => reportReq.body.margemLucro = 0

\* a simulation in which every deduction is above 0
C14_Witness ==
    /\ SimulationDone
    /\ reportReq.body.faturamentoBruto > 0
    /\ reportReq.body.adsInvestimento > 0
    /\ reportReq.body.taxasShopee > 0
    /\ reportReq.body.taxasCartaoPix > 0
    /\ reportReq.body.frete > 0
    /\ reportReq.body.custoProducao > 0
    /\ reportReq.body.custoFixo > 0
    /\ reportReq.body.imposto > 0

\* C18: an ingestion never changes the cost price of a Product: for a code that exists
\* it changes only the name, a new code becomes a Product with the code
\* '{channel}_{channelCode}' and no cost price, and no Product is deleted.
C18_IngestionKeepsCostPrice ==
    [][steps' # steps =>
          /\ \A p \in db.products : \E q \in db'.products :
                /\ q.id = p.id /\ q.code = p.code
                /\ q.costPrice = p.costPrice /\ q.source = p.source
          /\ \A q \in db'.products :
                (~\E p \in db.products : p.id = q.id) =>
                    /\ q.costPrice = None
                    /\ q.source \in Channels
                    /\ q.code = ProductCode(q.source, q.code[3])
                    /\ ~\E p \in db.products : p.code = q.code]_vars

\* an accepted ingestion has renamed a product after its cost price was set, and has
\* created another product
C18_Witness ==
    /\ catReq.op = "put-product" /\ catReq.code = 200 /\ catReq.at < steps
    /\ ingestReq.code = 200
    /\ \E p \in db.products :
          /\ p.id = catReq.id /\ IsSome(p.costPrice)
          /\ p.name = <<"Mug XL">>
    /\ \E q \in db.products : q.id > catReq.id /\ q.costPrice = None

(***************************************************************************)
(* One order of every status, read by the three reports                    *)
(***************************************************************************)
UnpaidPlain == <<"N", "a", "o", " ", "p", "a", "g", "o">>
CancelledUpper == <<"C", "A", "N", "C", "E", "L", "A", "D", "O">>

\* the texts of the status column
StatusTexts == {Completed, Cancelled, Unpaid, UnpaidPlain, CancelledUpper, Desconhecido}

\* the store after the upload of a shopee file with one row of the given status
OneOrderStore(status, day) ==
    LET rows == Compact(<<standardizeShopeeRow(
                            ShopeeRow("A", Serial(day), Some(status), "p1", "Mug", 2, 20, None))>>)
        ens == EnsureAll(EmptyDb, "shopee", rows, {}, 0)
    IN  Transaction(ens.db, ShopeeOrderOps(rows) \o ItemUpsertOps(ens.db, "shopee", rows))

ValidityInit ==
    /\ BillsInit
    /\ \E status \in StatusTexts, day \in {10, 40} : db = OneOrderStore(status, day)
    /\ ingestReq = [op |-> "none", source |-> "", file |-> "", fault |-> 0,
                    code |-> 0, body |-> [message |-> ""]]
    /\ steps = 0
    /\ faults = 0
    /\ catReq = NoCatReq
    /\ race = NoRace
    /\ parse = NoParse
    /\ InvInit
    /\ FinInit

ValidityNext ==
    \/ \E dateStr \in StartDates : SetConfig(dateStr)
    \/ \E pid \in ProductIdsOf(db), qty \in {MaxQty} : PutProductStock(pid, qty)
    \/ GetStockCurrent
    \/ \E fromStr \in MonthStrs, toStr \in MonthStrs : GetAdsDashboard(fromStr, toStr)
    \/ \E monthStr \in MonthStrs, channel \in SimChannels :
          GetSimulation(monthStr, channel, 0, 0)

(***************************************************************************)
(* Claims about the validity of an order in the reports                    *)
(***************************************************************************)
\* the first day of the month of a day
MonthStartOf(day) == DaysFromCivil(CivilFromDays(day)[1], CivilFromDays(day)[2], 1)

\* the revenue of the ROAS dashboard cell of a month and a channel
AdsCellRevenue(monthStart, channel) ==
    SumFn([o \in db.orders |-> o.totalPrice],
          { o \in AdsOrders(db, Some(monthStart), Some(monthStart)) : o.source = channel })

\* C29: all reports decide order validity identically: for every stored order status
\* the inventory ledger, the ads dashboard and the simulation agree on whether the
\* order is excluded as cancelled or unpaid, so for any month and channel the revenue
\* of the dashboard cell equals the gross revenue of the simulation.
C29_ReportsAgreeOnValidity ==
    /\ \A o \in db.orders :
          /\ isOrderValidForStock(o) <=> o \in AdsOrders(db, None, None)
          /\ o \in AdsOrders(db, None, None) <=>
                 o \in SimOrders(db, MonthStartOf(o.orderDate), "all")
    /\ \A o \in db.orders, channel \in Channels :
          LET monthStart == MonthStartOf(o.orderDate)
          IN  ToFixed2(AdsCellRevenue(monthStart, channel), 1) =
                  Simulation(db, fin, monthStart, channel, 0, 0).faturamentoBruto

(***************************************************************************)
(* Overlapping ingestion requests                                          *)
(***************************************************************************)
MaxInFlight == 2
MaxCommits == 3

\* the files of the channels whose uploads write whole orders in one transaction
RaceFiles ==
    { File("tray", f) : f \in DOMAIN TrayFiles } \cup { File("shopee", f) : f \in DOMAIN ShopeeFiles }

\* a request arrives: the handler reads and normalizes its file, the store is not touched
StartUpload(req) ==
    /\ req \notin race.running
    /\ Cardinality(race.running) < MaxInFlight
    /\ Cardinality(race.running) + Len(race.committed) < MaxCommits
    /\ race' = [race EXCEPT !.running = @ \cup {req}]
    /\ UNCHANGED <<billVars, db, ingestReq, steps, faults, catReq, parse, stockVars, reportVars>>

\* prisma.$transaction(operations) of a request in flight, and its response
CommitUpload(req) ==
    LET r == IngestOne(db, req)
    IN  /\ req \in race.running
        /\ db' = r
        /\ Respond("upload", req.source, req.file, 0, 200,
                   [message |-> "Processado com sucesso."])
        /\ race' = [running |-> race.running \ {req},
                    committed |-> Append(race.committed, req),
                    overlapped |-> race.overlapped \/ race.running # {req}]
        /\ UNCHANGED <<billVars, steps, faults, catReq, parse, stockVars, reportVars>>

RaceNext ==
    \/ \E req \in RaceFiles : StartUpload(req)
    \/ \E req \in RaceFiles : CommitUpload(req)

(***************************************************************************)
(* Claims about overlapping ingestions                                     *)
(***************************************************************************)
\* the order of channel source and id orderId as a request writes it on its own
OrderWrittenBy(req, source, orderId) ==
    { o \in IngestOne(EmptyDb, req).orders : o.source = source /\ o.orderId = orderId }

RECURSIVE LastWriter(_, _, _)
\* the last committed request that wrote the order, if any
LastWriter(committed, source, orderId) ==
    IF committed = <<>> THEN None
    ELSE IF OrderWrittenBy(committed[Len(committed)], source, orderId) # {}
      THEN Some(committed[Len(committed)])
    ELSE LastWriter(SubSeq(committed, 1, Len(committed) - 1), source, orderId)

\* the ingested fields of an order row
IngestedFields(o) ==
    [f \in {"orderDate", "status", "totalPrice", "quantity", "productName", "freight",
            "paymentType", "commissionFee", "serviceFee"} |-> o[f]]

\* C19: after overlapping ingestion requests of one channel that carry the same order
\* id there is exactly one Order for it, and all its ingested fields (date, status,
\* totals, quantity, name, freight, payment type, fees) are those of one single
\* request, the last writer, never a mix.
C19_LastWriterWins ==
    race.overlapped =>
        \A o \in db.orders :
            /\ Cardinality({ x \in db.orders :
                               x.orderId = o.orderId /\ x.source = o.source }) = 1
            /\ IsSome(LastWriter(race.committed, o.source, o.orderId)) =>
                  \E w \in OrderWrittenBy(Val(LastWriter(race.committed, o.source, o.orderId)),
                                          o.source, o.orderId) :
                      IngestedFields(o) = IngestedFields(w)

(***************************************************************************)
(* Overlapping stock-start requests.  POST /api/inventory-config awaits    *)
(* findFirst and then update or create: another request may run between    *)
(* the two calls.                                                          *)
(***************************************************************************)
\* the requests started so far
Started == Cardinality(race.running) + Len(race.committed)

\* the handler up to the end of `await findFirst({ orderBy: { id: 'desc' } })`
ReadConfig(dateStr) ==
    /\ dateStr.kind = "ymd"
    /\ Cardinality(race.running) < MaxInFlight
    /\ Started < MaxCommits
    /\ race' = [race EXCEPT !.running = @ \cup
                  {[op |-> "set-config", n |-> Started + 1, day |-> dateStr.day,
                    existing |-> IF IsSome(LatestConfig(inv))
                                   THEN Some(Val(LatestConfig(inv)).id) ELSE None]}]
    /\ UNCHANGED <<billVars, db, ingestReq, steps, faults, catReq, parse, stockVars, reportVars>>

\* the rest of the handler: update of the row that was found, or create, and the response
WriteConfig(req) ==
    /\ req \in race.running
    /\ req.op = "set-config"
    /\ inv' = IF IsSome(req.existing)
                THEN [inv EXCEPT !.configs =
                        { IF c.id = Val(req.existing)
                            THEN [c EXCEPT !.stockStartDate = req.day] ELSE c : c \in @ }]
                ELSE [inv EXCEPT !.configs =
                        @ \cup {[id |-> inv.nConfig, stockStartDate |-> req.day]},
                                 !.nConfig = @ + 1]
    /\ StockResp("set-config", 200, <<>>)
    /\ race' = [running |-> race.running \ {req},
                committed |-> Append(race.committed, req),
                overlapped |-> race.overlapped \/ race.running # {req}]
    /\ UNCHANGED <<billVars, db, ingestReq, steps, faults, catReq, parse, reportVars>>

ConfigNext ==
    \/ \E dateStr \in StartDates : ReadConfig(dateStr)
    \/ \E req \in race.running : WriteConfig(req)
    \/ race.running = {} /\ GetStockCurrent

(***************************************************************************)
(* Claims about overlapping stock-start requests                           *)
(***************************************************************************)
\* C26: after any sequence or interleaving of set-stock-start-date requests there is
\* at most one InventoryConfig row, and the ledger uses the date of the request that
\* completed last.
C26_ConfigIsSingleton ==
    /\ Cardinality(inv.configs) <= 1
    /\ (race.running = {} /\ race.committed # <<>>
          /\ race.committed[Len(race.committed)].op = "set-config") =>
            /\ IsSome(LatestConfig(inv))
            /\ Val(LatestConfig(inv)).stockStartDate =
                   race.committed[Len(race.committed)].day

(***************************************************************************)
(* Overlapping payment requests.  A payment handler awaits its write, then *)
(* updateBillStatus awaits findUnique (the bill with its payments) and     *)
(* then the update of the status: other requests may run between the calls.*)
(***************************************************************************)
\* await billPayment.create(...) of POST /api/bills/:id/payments
StartCreatePayment(billId, amount, paidAtStr) ==
    /\ nextPaymentId <= MaxPayments
    /\ amount > 0
    /\ BillById(bills, billId) # {}
    /\ Cardinality(race.running) < MaxInFlight
    /\ Started < MaxCommits
    /\ payments' = payments \cup
          {[id |-> nextPaymentId, billId |-> billId, amount |-> amount,
            dueDate |-> parseDateOnlyAsNoonUTC([kind |-> "ymd", y |-> 2026, m |-> 1, d |-> 5]),
            paidAt |-> parseDateOnlyAsNoonUTC(paidAtStr)]}
    /\ nextPaymentId' = nextPaymentId + 1
    /\ race' = [race EXCEPT !.running = @ \cup
                  {[op |-> "createPayment", n |-> Started + 1, billId |-> billId,
                    pc |-> "findUnique", status |-> ""]}]
    /\ UNCHANGED <<bills, nextBillId, billReq, db, ingestReq, steps, faults, catReq, parse,
                   stockVars, reportVars>>

\* await billPayment.deleteMany(...) of DELETE /api/bills/:id/payments/:paymentId
StartDeletePayment(billId, paymentId) ==
    /\ Cardinality(race.running) < MaxInFlight
    /\ Started < MaxCommits
    /\ payments' = { p \in payments : ~(p.id = paymentId /\ p.billId = billId) }
    /\ race' = [race EXCEPT !.running = @ \cup
                  {[op |-> "deletePayment", n |-> Started + 1, billId |-> billId,
                    pc |-> "findUnique", status |-> ""]}]
    /\ UNCHANGED <<bills, nextBillId, nextPaymentId, billReq, db, ingestReq, steps, faults,
                   catReq, parse, stockVars, reportVars>>

\* updateBillStatus up to the status it computes from the bill and the payments it read
ReadBillStatus(req) ==
    /\ req \in race.running
    /\ req.op \in {"createPayment", "deletePayment"} /\ req.pc = "findUnique"
    /\ race' = [race EXCEPT !.running = (@ \ {req}) \cup
          {[req EXCEPT !.pc = IF BillById(bills, req.billId) = {} THEN "respond" ELSE "update",
                       !.status = IF BillById(bills, req.billId) = {} THEN ""
                                  ELSE StatusFor(TotalPaid(payments, req.billId),
                                         (CHOOSE b \in BillById(bills, req.billId) : TRUE).totalAmount)]}]
    /\ UNCHANGED <<billVars, db, ingestReq, steps, faults, catReq, parse, stockVars, reportVars>>

\* await bill.update({ where: { id: billId }, data: { status } }), and the response
WriteBillStatus(req) ==
    /\ req \in race.running
    /\ req.op \in {"createPayment", "deletePayment"} /\ req.pc \in {"update", "respond"}
    /\ bills' = IF req.pc = "update"
                  THEN { IF b.id = req.billId THEN [b EXCEPT !.status = req.status] ELSE b :
                         b \in bills }
                  ELSE bills
    /\ billReq' = BillResp(req.op, req.billId, 200)
    /\ race' = [running |-> race.running \ {req},
                committed |-> Append(race.committed, req),
                overlapped |-> race.overlapped \/ race.running # {req}]
    /\ UNCHANGED <<payments, nextBillId, nextPaymentId, db, ingestReq, steps, faults, catReq,
                   parse, stockVars, reportVars>>

\* a bill without payments, as POST /api/bills leaves it
PaymentRaceInit ==
    /\ \E t \in 1..MaxAmount :
          bills = {[id |-> 1, totalAmount |-> t, status |-> "pending"]}
    /\ payments = {}
    /\ nextBillId = 2
    /\ nextPaymentId = 1
    /\ billReq = [op |-> "none", billId |-> 0, code |-> 0, before |-> None]
    /\ StoreInit
    /\ InvInit
    /\ FinInit

PaymentRaceNext ==
    \/ \E a \in 1..MaxAmount, paid \in DateStrs : StartCreatePayment(1, a, paid)
    \/ \E pid \in PaymentIds : StartDeletePayment(1, pid)
    \/ \E req \in race.running : ReadBillStatus(req)
    \/ \E req \in race.running : WriteBillStatus(req)

(***************************************************************************)
(* Claims about overlapping payment requests                               *)
(***************************************************************************)
\* C27: when two payment mutations on the same bill interleave, after both requests
\* have completed the bill's stored status equals the status derived from the final
\* set of payments.
C27_StatusAfterOverlap ==
    (race.running = {} /\ race.committed # <<>>
        /\ race.committed[Len(race.committed)].op \in {"createPayment", "deletePayment"}) =>
        \A b \in bills : b.status = DerivedStatus(PaidSum(payments, b.id), b.totalAmount)

(***************************************************************************)
(* Date cells                                                              *)
(***************************************************************************)
MaxDay == 32
MaxMonth == 13
Years == {2024, 2026}
Times == {None, Some(<<23, 59, 59>>)}

\* the dd/mm/yyyy cells a file may hold: every two-digit day and month in range
DmyCells ==
    { DmyText(dd, mm, yyyy, time) :
        dd \in 0..MaxDay, mm \in 0..MaxMonth, yyyy \in Years, time \in Times }

DatesInit ==
    /\ BillsInit
    /\ db = EmptyDb
    /\ ingestReq = [op |-> "none", source |-> "", file |-> "", fault |-> 0,
                    code |-> 0, body |-> [message |-> ""]]
    /\ steps = 0
    /\ faults = 0
    /\ catReq = NoCatReq
    /\ race = NoRace
    /\ \E cell \in DmyCells : parse = [cell |-> cell, done |-> FALSE, result |-> None]
    /\ InvInit
    /\ FinInit

\* parseDateFlexible applied to the cell
ParseCell ==
    /\ ~parse.done
    /\ parse' = [parse EXCEPT !.done = TRUE, !.result = parseDateFlexible(parse.cell)]
    /\ UNCHANGED <<billVars, db, ingestReq, steps, faults, catReq, race, stockVars, reportVars>>

(***************************************************************************)
(* Claims about the date cells                                             *)
(***************************************************************************)
IsLeapYear(y) == (y % 4 = 0 /\ y % 100 # 0) \/ y % 400 = 0

DaysInMonth(y, m) ==
    IF m = 2 THEN (IF IsLeapYear(y) THEN 29 ELSE 28)
    ELSE IF m \in {4, 6, 9, 11} THEN 30 ELSE 31

\* dd/mm/yyyy names a date of the calendar
IsCalendarDate(c) ==
    c.mm >= 1 /\ c.mm <= 12 /\ c.dd >= 1 /\ c.dd <= DaysInMonth(c.yyyy, c.mm)

\* C20: for every string dd/mm/yyyy, with or without a time, parseDateFlexible never
\* swaps day and month: the result is a date whose day of month is dd, whose month is
\* mm and whose year is yyyy, or null when no such calendar date exists.
C20_DayMonthNeverSwapped ==
    parse.done =>
        IF IsCalendarDate(parse.cell)
          THEN /\ IsSome(parse.result)
               /\ CivilFromDays(Val(parse.result)) =
                      <<parse.cell.yyyy, parse.cell.mm, parse.cell.dd>>
          ELSE parse.result = None

(***************************************************************************)
(* Claims about the orders and their items                                 *)
(***************************************************************************)
\* the order ids of the rows of a file that the normalizers keep
AcceptedOrderIds(raw) == { raw[k].orderId : k \in { j \in 1..Len(raw) : RowIsValid(raw[j]) } }

OrdersOf(d, source, orderId) ==
    { o \in d.orders : o.source = source /\ o.orderId = orderId }

ItemsOf(d, source, orderId) ==
    { i \in d.items : i.source = source /\ i.orderId = orderId }

\* a shopee or tiktok upload succeeds in this step on a store without the file's orders
FreshItemUpload ==
    /\ steps' = steps + 1
    /\ ingestReq'.op = "upload" /\ ingestReq'.source \in {"shopee", "tiktok"}
    /\ ingestReq'.code = 200
    /\ \A id \in AcceptedOrderIds(RawRows(ingestReq')) :
          OrdersOf(db, ingestReq'.source, id) = {}

\* C23: after ingesting a shopee or tiktok file into a store that holds none of its
\* orders, each order id of the file has exactly one Order, every accepted row has
\* become an OrderItem of it, and Order.quantity is the sum of the quantities of the
\* stored OrderItems of the order.
C23_OrderQuantityIsSumOfItems ==
    [][FreshItemUpload =>
         LET raw == RawRows(ingestReq')
             src == ingestReq'.source
         IN  \A id \in AcceptedOrderIds(raw) :
                 /\ Cardinality(OrdersOf(db', src, id)) = 1
                 /\ Cardinality(ItemsOf(db', src, id)) >= Len(ValidRowsOf(raw, id))
                 /\ \A o \in OrdersOf(db', src, id) :
                        o.quantity = QtySum(ItemsOf(db', src, id))]_vars

\* the order ids of the rows of a file, whatever the export
FileOrderIds(raw) == { raw[k].orderId : k \in 1..Len(raw) }

\* the name of the first item stored for an order
FirstItemName(d, source, orderId) ==
    LET its == ItemsOf(d, source, orderId)
    IN  (CHOOSE i \in its : \A j \in its : i.id <= j.id).name

\* C28: for the tray channel, once the orders export and the items export covering an
\* order have both been ingested, the Order's quantity is the sum of its OrderItem
\* quantities and its product name is the first item's name, whichever file came first
\* and however often the orders export is ingested again.
C28_TrayOrderFollowsItems ==
    (/\ ingestReq.code = 200
     /\ \/ ingestReq.op = "upload" /\ ingestReq.source = "tray"
        \/ ingestReq.op = "upload-items") =>
        \A o \in db.orders :
            (/\ o.source = "tray"
             /\ o.orderId \in FileOrderIds(RawRows(ingestReq))
             /\ ItemsOf(db, "tray", o.orderId) # {}) =>
                /\ o.quantity = QtySum(ItemsOf(db, "tray", o.orderId))
                /\ o.productName = FirstItemName(db, "tray", o.orderId)

(***************************************************************************)
(* Number cells                                                            *)
(***************************************************************************)
MaxLen == 4
NumberChars == {"1", "5", ",", ".", " ", "R", "$", "-"}

RECURSIVE Strings(_)
Strings(n) ==
    IF n = 0 THEN {<<>>}
    ELSE LET shorter == Strings(n - 1)
         IN  shorter \cup { Append(s, c) : s \in { x \in shorter : Len(x) = n - 1 },
                                           c \in NumberChars }

\* the amounts the specification names, and a few longer ones
NumberExamples ==
    { <<"1", ".", "2", "3", "4", ",", "5", "6">>,
      <<"1", ",", "2", "3", "4", ".", "5", "6">>,
      <<"R", "$", " ", "5", "0", ",", "0", "0">>,
      <<"B", "R", "L", " ", "1", ".", "0", "0", "0", ",", "5">>,
      <<"1", ".", "2", "3", "4", ".", "5", "6", "7", ",", "8">>,
      <<"1", ",", "2", "3", "4", ",", "5", "6", "7", ".", "8">>,
      <<"a", "b", "c">>,
      <<"I", "n", "f", "i", "n", "i", "t", "y">> }

\* the values a cell or a JSON body can hold
NumberInputs ==
    {NullValue, NumberValue(Infinity)}
        \cup { NumberValue(Finite(n, 1)) : n \in (0 - 1)..MaxAmount }
        \cup { TextValue(s) : s \in Strings(MaxLen) \cup NumberExamples }

NumbersInit ==
    /\ BillsInit
    /\ db = EmptyDb
    /\ ingestReq = [op |-> "none", source |-> "", file |-> "", fault |-> 0,
                    code |-> 0, body |-> [message |-> ""]]
    /\ steps = 0
    /\ faults = 0
    /\ catReq = NoCatReq
    /\ race = NoRace
    /\ \E v \in NumberInputs : parse = [cell |-> v, done |-> FALSE, result |-> None]
    /\ InvInit
    /\ FinInit

\* parseBrNumber applied to the value
ParseNumber ==
    /\ ~parse.done
    /\ parse' = [parse EXCEPT !.done = TRUE, !.result = Some(parseBrNumberOf(parse.cell))]
    /\ UNCHANGED <<billVars, db, ingestReq, steps, faults, catReq, race, stockVars, reportVars>>

(***************************************************************************)
(* Claims about the number cells                                           *)
(***************************************************************************)
\* the text without its currency markers and the white space around it
MoneyBody(s) == Trim(StripMarker(StripMarker(Trim(s), <<"R", "$">>), <<"B", "R", "L">>))

Count(s, c) == Len(SelectSeq(s, LAMBDA x : x = c))

\* the decimal point of a body: the rightmost of comma and dot when both occur, the
\* comma when it occurs alone, the dot otherwise
DecimalPoint(b) ==
    IF Count(b, ",") > 0 /\ Count(b, ".") > 0
      THEN (IF LastIndexOf(b, ",") > LastIndexOf(b, ".") THEN "," ELSE ".")
    ELSE IF Count(b, ",") > 0 THEN ","
    ELSE "."

\* a body of digits, commas and dots with one decimal point at most and a digit
IsMoney(b) ==
    /\ \A i \in 1..Len(b) : IsDigit(b[i]) \/ b[i] \in {",", "."}
    /\ \E i \in 1..Len(b) : IsDigit(b[i])
    /\ Count(b, DecimalPoint(b)) <= 1

\* the amount a body of digits and separators stands for
MoneyValue(b) ==
    LET p == LastIndexOf(b, DecimalPoint(b))
        int == SelectSeq(IF p = 0 THEN b ELSE SubSeq(b, 1, p - 1), IsDigit)
        frac == SelectSeq(IF p = 0 THEN <<>> ELSE SubSeq(b, p + 1, Len(b)), IsDigit)
    IN  Finite(DigitsValue(int \o frac), Pow10(Len(frac)))

SameNumber(a, b) == a.fin /\ b.fin /\ a.num * b.den = b.num * a.den

\* a text that is no number: no digit in it, and not the word Infinity
IsNonNumeric(s) == \A i \in 1..Len(s) : ~IsDigit(s[i])

\* C21: parseBrNumber returns a finite number for every input; currency markers are
\* stripped; when comma and dot both occur the rightmost is the decimal point and the
\* other is a thousands separator; a comma alone is the decimal point; empty, blank
\* or non-numeric input yields 0.
C21_FiniteNumberForEveryInput ==
    parse.done /\ parse.cell.kind \in {"null", "number", "text"} =>
        LET r == Val(parse.result)
            b == MoneyBody(parse.cell.s)
        IN  /\ r.fin
            /\ parse.cell.kind = "null" => SameNumber(r, Finite(0, 1))
            /\ parse.cell.kind = "text" /\ IsMoney(b) => SameNumber(r, MoneyValue(b))
            /\ parse.cell.kind = "text" /\ IsNonNumeric(parse.cell.s) =>
                   SameNumber(r, Finite(0, 1))


(***************************************************************************)
(* Plain dates: saved by a request, read back in a time zone               *)
(***************************************************************************)
\* the columns that hold a plain date a user entered
PlainDateFields == {"bill.dueDate", "payment.dueDate", "payment.paidAt", "stockStartDate"}

\* new Date('yyyy-mm-dd'): a date-only ISO text is read as midnight UTC of that day
NewDateOfDateOnly(s) ==
    IF s.kind = "ymd" THEN Some([y |-> s.y, m |-> s.m, d |-> s.d, utcHour |-> 0])
    ELSE None

\* the value a handler stores for the date text s: POST /api/inventory-config uses
\* new Date(dateStr), the bill and payment handlers use parseDateOnlyAsNoonUTC
StoredPlainDate(field, s) ==
    IF field = "stockStartDate" THEN NewDateOfDateOnly(s) ELSE parseDateOnlyAsNoonUTC(s)

\* the stored time in hours since 1970-01-01T00:00Z
InstantOf(t) == DaysFromCivil(t.y, t.m, t.d) * 24 + t.utcHour

\* d.getFullYear(), d.getMonth() + 1, d.getDate() where local time is UTC + offset hours
LocalDateOf(t, offset) == CivilFromDays((InstantOf(t) + offset) \div 24)

\* the calendar dates a user enters: the first and the last day of every month
PlainDates ==
    { [kind |-> "ymd", y |-> y, m |-> m, d |-> d] :
        y \in Years, m \in 1..12, d \in 1..31 }

ValidPlainDates == { s \in PlainDates : s.d = 1 \/ s.d = DaysInMonth(s.y, s.m) }

\* local time is UTC + offset hours
Offsets == (0 - 12)..11

PlainDatesInit ==
    /\ BillsInit
    /\ db = EmptyDb
    /\ ingestReq = [op |-> "none", source |-> "", file |-> "", fault |-> 0,
                    code |-> 0, body |-> [message |-> ""]]
    /\ steps = 0
    /\ faults = 0
    /\ catReq = NoCatReq
    /\ race = NoRace
    /\ \E field \in PlainDateFields, s \in ValidPlainDates, offset \in Offsets :
           parse = [cell |-> [kind |-> "plain", field |-> field, date |-> s,
                              offset |-> offset],
                    done |-> FALSE, result |-> None]
    /\ InvInit
    /\ FinInit

\* the date is saved, and the stored value is read in the reader's time zone
SaveAndRead ==
    /\ ~parse.done
    /\ LET stored == StoredPlainDate(parse.cell.field, parse.cell.date)
       IN  parse' = [parse EXCEPT !.done = TRUE,
                       !.result = Some([stored |-> Val(stored),
                                        read |-> LocalDateOf(Val(stored), parse.cell.offset)])]
    /\ UNCHANGED <<billVars, db, ingestReq, steps, faults, catReq, race, stockVars, reportVars>>

(***************************************************************************)
(* Claims about the plain dates                                            *)
(***************************************************************************)
\* C22: a yyyy-mm-dd value saved as a bill due date, a payment due or paid date or the
\* stock-start date is stored at 12:00 UTC of that day, and read with a local offset
\* between -12h and +11h it is the calendar date that was saved.
C22_PlainDateRoundTrip ==
    parse.done /\ parse.cell.kind = "plain" =>
        /\ Val(parse.result).stored.utcHour = 12
        /\ Val(parse.result).read =
               <<parse.cell.date.y, parse.cell.date.m, parse.cell.date.d>>

(***************************************************************************)
(* Specifications                                                          *)
(***************************************************************************)
Init == BillsInit /\ StoreInit /\ InvInit /\ FinInit

Next ==
    \/ BillsNext /\ UNCHANGED <<storeVars, stockVars, reportVars>>
    \/ IngestNext
    \/ StockNext
    \/ GroupsNext
    \/ CatalogNext
    \/ AdsNext
    \/ SimNext
    \/ ValidityNext
    \/ RaceNext
    \/ ConfigNext
    \/ PaymentRaceNext
    \/ ParseCell
    \/ ParseNumber
    \/ SaveAndRead

Spec == Init /\ [][Next]_vars

\* the bills and their payments alone
SpecBills == Init /\ [][BillsNext /\ UNCHANGED <<storeVars, stockVars, reportVars>>]_vars

\* the ingestions and purges alone
SpecIngest == Init /\ [][IngestNext]_vars

\* the inventory requests on the stores that runs of ingestions leave behind
SpecStock == StockInit /\ [][StockNext]_vars

\* the product-group requests on a store of three products
SpecGroups == GroupsInit /\ [][GroupsNext]_vars

\* parseDateFlexible on the dd/mm/yyyy cells
SpecDates == DatesInit /\ [][ParseCell]_vars

\* parseBrNumber on every value of NumberInputs
SpecNumbers == NumbersInit /\ [][ParseNumber]_vars

\* plain dates saved and read back
SpecPlainDates == PlainDatesInit /\ [][SaveAndRead]_vars

\* ingestion requests that overlap
SpecRace == Init /\ [][RaceNext]_vars

\* overlapping stock-start requests, and the ledger
SpecConfig == StockInit /\ [][ConfigNext]_vars

\* overlapping payment requests on one bill
SpecPaymentRace == PaymentRaceInit /\ [][PaymentRaceNext]_vars

\* the ingestions with edits of the product costs between them
SpecCatalog == Init /\ [][CatalogNext]_vars

\* the advertising spend and the ROAS dashboard over stores left by ingestions
SpecAds == ReportInit /\ [][AdsNext]_vars

\* the product costs, the payment-type fees and the P&L simulation
SpecSim == ReportInit /\ [][SimNext]_vars

\* the three reports on a store with one order of any status
SpecValidity == ValidityInit /\ [][ValidityNext]_vars

====
